---- MODULE Spec2Model ----
(***************************************************************************)
(* gdrive-dedup: the file index, the duplicate-detection pipeline, the     *)
(* deletion strategies, the trash executor with its retry wrapper and the  *)
(* delete command, modelled from the Python sources.                       *)
(*                                                                         *)
(* Strings that the code inspects character by character (file ids, paths, *)
(* glob patterns) are sequences of one-character strings.  Python's None   *)
(* is a sentinel of the same type as the values it stands in for.          *)
(***************************************************************************)
EXTENDS Integers, Sequences, FiniteSets, TLC

(***************************************************************************)
(* Bounds of the model.                                                    *)
(***************************************************************************)
MaxSize == 2        \* file sizes range over 1..MaxSize
MaxTime == 2        \* modification times range over 1..MaxTime
MaxGroup == 3       \* members of a duplicate group handed to a strategy
MaxBatch == 3       \* length of the id list handed to trash_files
BucketCapacity == 2 \* tokens the rate limiter's bucket holds (settings.rate_limit)
MaxElapsed == 1     \* clock ticks that may pass between two remote calls
MaxClock == 4       \* clock ticks over which the limiter's grants are counted
MaxListing == 2     \* files a listing of the remote store yields
MaxCrashes == 2     \* interruptions of a scan

(***************************************************************************)
(* Program constants.                                                      *)
(***************************************************************************)
max_retries == 5    \* exponential_backoff(max_retries=5)
base_delay == 1     \* exponential_backoff(base_delay=1.0)
max_delay == 60     \* exponential_backoff(max_delay=60.0)
batch_size == 2     \* settings.batch_size, scaled down to the listings

(***************************************************************************)
(* Character data.                                                         *)
(***************************************************************************)
\* byte values of the characters used, for the BINARY collation of SQLite
CharCode == [c \in {"*", ",", "/", "?", "a", "b", "c"} |->
               CASE c = "*" -> 42 [] c = "," -> 44 [] c = "/" -> 47
                 [] c = "?" -> 63 [] c = "a" -> 97 [] c = "b" -> 98
                 [] c = "c" -> 99]

RECURSIVE StrLess(_, _)
\* s < t for two character sequences, byte-wise (memcmp, shorter prefix first)
StrLess(s, t) ==
  IF t = <<>> THEN FALSE
  ELSE IF s = <<>> THEN TRUE
  ELSE IF Head(s) = Head(t) THEN StrLess(Tail(s), Tail(t))
  ELSE CharCode[Head(s)] < CharCode[Head(t)]

\* Python None where a str is expected
NoneStr == <<"None">>
\* Python None where an md5 text is expected (SQL NULL in the table)
NoneMd5 == "NULL"

\* the file ids of the model, Drive ids never hold a comma
AllIds == << <<"a">>, <<"b">>, <<"a", "b">>, <<"c">>, <<"c", "a">> >>
\* the ids that may occur in the index
FileIds == {AllIds[1], AllIds[2], AllIds[3]}

\* "/".join(parts)
RECURSIVE join(_)
join(parts) ==
  IF Len(parts) = 1 THEN parts[1]
  ELSE parts[1] \o <<"/">> \o join(Tail(parts))

\* DriveScanner.get_file_path, given the names of the folders up the parent
\* chain of the file, outermost first (none for a file without parents, ""
\* for a folder whose name could not be fetched): the path holds the names
\* of the folders only, never the name of the file
get_file_path(folder_names) ==
  LET path_parts == SelectSeq(folder_names, LAMBDA n : n # <<>>)
  IN IF path_parts # <<>> THEN <<"/">> \o join(path_parts) ELSE <<"/">>

\* the parent chains of the model: no parent, folder a, folder b, and
\* folder b inside folder a
ParentChains == { <<>>, << <<"a">> >>, << <<"b">> >>, << <<"a">>, <<"b">> >> }
\* the paths the scanner gives the files under them
Paths == {get_file_path(ch) : ch \in ParentChains}

\* glob patterns of the model (None, the empty pattern, literals, * and ?)
Patterns == { NoneStr, <<>>, <<"*">>, <<"/", "a">>, <<"/", "a", "*">>,
              <<"?", "b">>, <<"/", "c">> }

Md5s == {NoneMd5, "", "x", "y"}
Md5Rank == [m \in Md5s |-> CASE m = NoneMd5 -> 0 [] m = "" -> 1
                             [] m = "x" -> 2 [] m = "y" -> 3]

StrategyNames == {"newest", "oldest", "shortest", "longest", "deepest",
                  "path", "merge-names"}

(***************************************************************************)
(* detector/models.py                                                      *)
(***************************************************************************)
FileRecord(id, nm, sz, m, mt, p, tr) ==
  [file_id |-> id, name |-> nm, size |-> sz, md5 |-> m,
   modified_time |-> mt, path |-> p, trashed |-> tr]

DuplicateGroup(gid, fs, sz, m) ==
  [group_id |-> gid, files |-> fs, size |-> sz, md5 |-> m]

count(g) == Len(g.files)
total_size(g) == g.size * Len(g.files)
\* mutant: no member is set aside
wasted_size_counts_all(g) == g.size * Len(g.files)

wasted_size(g) == g.size * (Len(g.files) - 1)

\* Python max(seq, key) over the keys of the elements: the index of the
\* first element whose key is maximal
PyMax(keys) ==
  CHOOSE i \in 1..Len(keys) :
    /\ \A j \in 1..Len(keys) : keys[j] <= keys[i]
    /\ \A j \in 1..(i - 1) : keys[j] < keys[i]

\* Python min(seq, key): the index of the first element whose key is minimal
PyMin(keys) ==
  CHOOSE i \in 1..Len(keys) :
    /\ \A j \in 1..Len(keys) : keys[j] >= keys[i]
    /\ \A j \in 1..(i - 1) : keys[j] > keys[i]

Times(g) == [i \in 1..Len(g.files) |-> g.files[i].modified_time]
PathLens(g) == [i \in 1..Len(g.files) |-> Len(g.files[i].path)]

\* mutant: max replaced by min
newest_file_is_oldest(g) == g.files[PyMin(Times(g))]

newest_file(g) == g.files[PyMax(Times(g))]
oldest_file(g) == g.files[PyMin(Times(g))]
shortest_path(g) == g.files[PyMin(PathLens(g))]
longest_path(g) == g.files[PyMax(PathLens(g))]

\* str.count('/')
RECURSIVE CountSlash(_)
CountSlash(p) ==
  IF p = <<>> THEN 0
  ELSE (IF Head(p) = "/" THEN 1 ELSE 0) + CountSlash(Tail(p))

\* path.rsplit('/', 1)[0] if '/' in path else ''
get_folder(p) ==
  IF \E i \in 1..Len(p) : p[i] = "/"
  THEN SubSeq(p, 1, (CHOOSE i \in 1..Len(p) :
                       p[i] = "/" /\ \A j \in (i + 1)..Len(p) : p[j] # "/") - 1)
  ELSE <<>>

are_all_in_same_folder(g) ==
  IF Len(g.files) <= 1 THEN TRUE
  ELSE Cardinality({get_folder(g.files[i].path) : i \in 1..Len(g.files)}) = 1

(***************************************************************************)
(* actions/strategies.py                                                   *)
(***************************************************************************)
RECURSIVE fnmatch(_, _)
\* fnmatch.fnmatch(name, pat) on POSIX for patterns of literals, * and ?
fnmatch(s, p) ==
  IF p = <<>> THEN s = <<>>
  ELSE IF Head(p) = "*"
       THEN fnmatch(s, Tail(p)) \/ (s # <<>> /\ fnmatch(Tail(s), p))
       ELSE /\ s # <<>>
            /\ (Head(p) = "?" \/ Head(p) = Head(s))
            /\ fnmatch(Tail(s), Tail(p))

\* `if keep_path:` is false for None and for the empty string
Truthy(keep_path) == keep_path # NoneStr /\ keep_path # <<>>

matching_files(g, keep_path) ==
  SelectSeq(g.files, LAMBDA f : fnmatch(f.path, keep_path))
non_matching_files(g, keep_path) ==
  SelectSeq(g.files, LAMBDA f : ~fnmatch(f.path, keep_path))
AllBut(g, keep) ==
  SelectSeq(g.files, LAMBDA f : f.file_id # keep.file_id)

KeepNewestStrategy(g, keep_path) ==
  IF Truthy(keep_path) /\ matching_files(g, keep_path) # <<>>
  THEN non_matching_files(g, keep_path)
  ELSE AllBut(g, newest_file(g))

KeepOldestStrategy(g, keep_path) ==
  IF Truthy(keep_path) /\ matching_files(g, keep_path) # <<>>
  THEN non_matching_files(g, keep_path)
  ELSE AllBut(g, oldest_file(g))

KeepShortestPathStrategy(g, keep_path) ==
  IF Truthy(keep_path) /\ matching_files(g, keep_path) # <<>>
  THEN non_matching_files(g, keep_path)
  ELSE AllBut(g, shortest_path(g))

KeepLongestPathStrategy(g, keep_path) ==
  IF Truthy(keep_path) /\ matching_files(g, keep_path) # <<>>
  THEN non_matching_files(g, keep_path)
  ELSE AllBut(g, longest_path(g))

\* mutant: the fallback branches trash the whole group
KeepPathStrategyTrashAll(g, keep_path) ==
  IF ~Truthy(keep_path) THEN g.files
  ELSE IF matching_files(g, keep_path) = <<>> THEN g.files
  ELSE non_matching_files(g, keep_path)

KeepPathStrategy(g, keep_path) ==
  IF ~Truthy(keep_path) THEN Tail(g.files)
  ELSE IF matching_files(g, keep_path) = <<>> THEN Tail(g.files)
  ELSE non_matching_files(g, keep_path)

\* path_depth of every member: file.path.count('/')
path_depth(g) == [i \in 1..Len(g.files) |-> CountSlash(g.files[i].path)]

\* mutant: the deepest-path strategy without the keep_path override
KeepDeepestPathStrategyNoOverride(g, keep_path) ==
  AllBut(g, g.files[PyMax(path_depth(g))])

KeepDeepestPathStrategy(g, keep_path) ==
  IF Truthy(keep_path) /\ matching_files(g, keep_path) # <<>>
  THEN non_matching_files(g, keep_path)
  ELSE AllBut(g, g.files[PyMax(path_depth(g))])

MergeNamesStrategy(g, keep_path) ==
  IF Truthy(keep_path) /\ matching_files(g, keep_path) # <<>>
  THEN non_matching_files(g, keep_path)
  ELSE AllBut(g, newest_file(g))

(***************************************************************************)
(* actions/name_merger.py, for file names made of lowercase letters a..c   *)
(* and the separators "_", "-", " " and ".", shorter than 15 characters:   *)
(* such names hold no digits, dates, times, month names or copy notations  *)
(* and match none of the generic patterns.                                 *)
(***************************************************************************)
Separators == {"_", "-", " ", "."}

\* filename.rsplit('.', 1): <<name, extension>>
_split_extension(fn) ==
  IF \E i \in 1..Len(fn) : fn[i] = "."
  THEN LET i == CHOOSE k \in 1..Len(fn) :
                  fn[k] = "." /\ \A j \in (k + 1)..Len(fn) : fn[j] # "."
       IN <<SubSeq(fn, 1, i - 1), SubSeq(fn, i, Len(fn))>>
  ELSE <<fn, <<>>>>

RECURSIVE Words(_, _)
\* the non-empty pieces of re.split(r'[_\-\s.]+', name)
Words(s, cur) ==
  LET done == IF cur = <<>> THEN <<>> ELSE <<cur>>
  IN IF s = <<>> THEN done
     ELSE IF Head(s) \in Separators THEN done \o Words(Tail(s), <<>>)
     ELSE Words(Tail(s), Append(cur, Head(s)))

\* words of two letters or more
_extract_descriptive_text(name) ==
  SelectSeq(Words(name, <<>>), LAMBDA w : Len(w) >= 2)

\* NameParser.parse: the components merge_names reads
parse(fn) ==
  LET sp == _split_extension(fn)
  IN [descriptive_text |-> _extract_descriptive_text(sp[1]),
      extension |-> sp[2], is_generic |-> FALSE]

RECURSIVE Dedupe(_, _)
\* keep the first occurrence of every word
Dedupe(ws, seen) ==
  IF ws = <<>> THEN <<>>
  ELSE IF Head(ws) \in seen THEN Dedupe(Tail(ws), seen)
  ELSE <<Head(ws)>> \o Dedupe(Tail(ws), seen \cup {Head(ws)})

RECURSIVE Join(_)
\* '-'.join(parts)
Join(parts) ==
  IF parts = <<>> THEN <<>>
  ELSE IF Len(parts) = 1 THEN parts[1]
  ELSE parts[1] \o <<"-">> \o Join(Tail(parts))

RECURSIVE Concat(_)
Concat(seqs) == IF seqs = <<>> THEN <<>> ELSE Head(seqs) \o Concat(Tail(seqs))

Digits == <<"0", "1", "2", "3", "4", "5", "6", "7", "8", "9">>
RECURSIVE Str(_)
\* str(n) of a natural number
Str(n) ==
  IF n < 10 THEN <<Digits[n + 1]>> ELSE Str(n \div 10) \o <<Digits[(n % 10) + 1]>>

\* the human-readable size suffix
size_str(file_size) ==
  IF file_size < 1024 THEN Str(file_size) \o <<"B">>
  ELSE IF file_size < 1024 * 1024 THEN Str(file_size \div 1024) \o <<"K", "B">>
  ELSE IF file_size < 1024 * 1024 * 1024
  THEN Str(file_size \div (1024 * 1024)) \o <<"M", "B">>
  ELSE Str(file_size \div (1024 * 1024 * 1024)) \o <<"G", "B">>

\* NameMerger.merge_names(filenames, file_size); file_size 0 stands for None
\* as well (the code tests `if file_size:`)
merge_names(filenames, file_size) ==
  IF filenames = <<>> THEN <<>>
  ELSE IF Len(filenames) = 1 THEN filenames[1]
  ELSE
    LET components == [i \in 1..Len(filenames) |-> parse(filenames[i])]
        exts == SelectSeq([i \in 1..Len(components) |-> components[i].extension],
                          LAMBDA e : e # <<>>)
        extension == IF exts = <<>> THEN <<>> ELSE exts[1]
        all_text == Dedupe(Concat([i \in 1..Len(components) |->
                                     components[i].descriptive_text]), {})
        named == {i \in 1..Len(components) : ~components[i].is_generic}
    IN IF all_text = <<>>
       THEN IF named # {}
            THEN filenames[CHOOSE i \in named : \A j \in named : i <= j]
            ELSE filenames[1]
       ELSE Join(all_text)
              \o (IF file_size # 0 THEN <<"-">> \o size_str(file_size) ELSE <<>>)
              \o extension

\* MergeNamesStrategy.get_rename_info: <<>> for None, else the file to keep
\* and its new name
get_rename_info(g, include_size) ==
  LET filenames == [i \in 1..Len(g.files) |-> g.files[i].name]
      file_size == IF include_size THEN g.size ELSE 0
      merged_name == merge_names(filenames, file_size)
      file_to_keep == newest_file(g)
  IN IF merged_name # file_to_keep.name
     THEN <<[file |-> file_to_keep, new_name |-> merged_name]>>
     ELSE <<>>

\* the cased characters of the names a caller may type
UpperCase == <<"A", "B", "C", "D", "E", "F", "G", "H", "I", "J", "K", "L", "M",
               "N", "O", "P", "Q", "R", "S", "T", "U", "V", "W", "X", "Y", "Z">>
LowerCase == <<"a", "b", "c", "d", "e", "f", "g", "h", "i", "j", "k", "l", "m",
               "n", "o", "p", "q", "r", "s", "t", "u", "v", "w", "x", "y", "z">>

\* the lower-case form of one character
LowerChar(c) ==
  IF \E k \in 1..Len(UpperCase) : UpperCase[k] = c
  THEN LowerCase[CHOOSE k \in 1..Len(UpperCase) : UpperCase[k] = c]
  ELSE c

\* str.lower(): every cased character is replaced by its lower-case form
lower(name) == [i \in 1..Len(name) |-> LowerChar(name[i])]

\* the text of the keys of the strategies dict
KeyText(k) ==
  CASE k = "newest" -> <<"n", "e", "w", "e", "s", "t">>
    [] k = "oldest" -> <<"o", "l", "d", "e", "s", "t">>
    [] k = "shortest" -> <<"s", "h", "o", "r", "t", "e", "s", "t">>
    [] k = "longest" -> <<"l", "o", "n", "g", "e", "s", "t">>
    [] k = "deepest" -> <<"d", "e", "e", "p", "e", "s", "t">>
    [] k = "path" -> <<"p", "a", "t", "h">>
    [] k = "merge-names" -> 
         <<"m", "e", "r", "g", "e", "-", "n", "a", "m", "e", "s">>

\* get_strategy(strategy_name): strategies.get(strategy_name.lower()), the
\* key of the strategy class it instantiates, or the ValueError it raises
get_strategy(strategy_name) ==
  IF \E k \in StrategyNames : KeyText(k) = lower(strategy_name)
  THEN CHOOSE k \in StrategyNames : KeyText(k) = lower(strategy_name)
  ELSE "ValueError"

\* get_strategy(name) followed by select_files_to_trash(group, keep_path)
select_files_to_trash(name, g, keep_path) ==
  CASE name = "newest" -> KeepNewestStrategy(g, keep_path)
    [] name = "oldest" -> KeepOldestStrategy(g, keep_path)
    [] name = "shortest" -> KeepShortestPathStrategy(g, keep_path)
    [] name = "longest" -> KeepLongestPathStrategy(g, keep_path)
    [] name = "deepest" -> KeepDeepestPathStrategy(g, keep_path)
    [] name = "path" -> KeepPathStrategy(g, keep_path)
    [] name = "merge-names" -> MergeNamesStrategy(g, keep_path)

(***************************************************************************)
(* scanner/file_index.py: the files table is the sequence of its rows in   *)
(* rowid order, keyed by file_id (PRIMARY KEY); a row stores the times as  *)
(* ISO text and the flags as 0/1.                                          *)
(***************************************************************************)
\* datetime.isoformat() / datetime.fromisoformat(): the TEXT column value
isoformat(t) == [iso |-> t]
fromisoformat(s) == s.iso

\* the parameter tuple of INSERT OR REPLACE, one stored row
RowOf(f) ==
  [file_id |-> f.file_id, name |-> f.name, size |-> f.size, md5 |-> f.md5,
   modified_time |-> isoformat(f.modified_time), path |-> f.path,
   trashed |-> IF f.trashed THEN 1 ELSE 0]

_row_to_file(row) ==
  FileRecord(row.file_id, row.name, row.size, row.md5,
             fromisoformat(row.modified_time), row.path, row.trashed # 0)

\* mutant: a plain INSERT into a table without the primary key
add_file_keeps_old(table, f) == Append(table, RowOf(f))

\* INSERT OR REPLACE of one record: the row of the same file_id is deleted
\* and the new row takes the next rowid, at the end of the table
add_file(table, f) ==
  Append(SelectSeq(table, LAMBDA r : r.file_id # f.file_id), RowOf(f))

\* the rows of a table, whatever their rowids
Rows(table) == {table[i] : i \in 1..Len(table)}

RECURSIVE add_files(_, _)
\* executemany(INSERT OR REPLACE ...) over the list, then commit
add_files(table, fs) ==
  IF fs = <<>> THEN table
  ELSE add_files(add_file(table, Head(fs)), Tail(fs))

\* SELECT * FROM files WHERE file_id = ?  (no trashed filter)
get_file(table, id) ==
  LET hit == SelectSeq(table, LAMBDA r : r.file_id = id)
  IN IF hit = <<>> THEN <<>> ELSE <<_row_to_file(hit[1])>>

\* SELECT COUNT(*) FROM files WHERE trashed = 0
count_files(table) == Len(SelectSeq(table, LAMBDA r : r.trashed = 0))

RECURSIVE SortedIds(_)
\* the ids of a set in ascending BINARY order (the order of the key index)
SortedIds(S) ==
  IF S = {} THEN <<>>
  ELSE LET m == CHOOSE x \in S : \A y \in S \ {x} : StrLess(x, y)
       IN <<m>> \o SortedIds(S \ {m})

RECURSIVE SortedInts(_)
SortedInts(S) ==
  IF S = {} THEN <<>>
  ELSE LET m == CHOOSE x \in S : \A y \in S : x <= y
       IN <<m>> \o SortedInts(S \ {m})

RECURSIVE SortedMd5s(_)
SortedMd5s(S) ==
  IF S = {} THEN <<>>
  ELSE LET m == CHOOSE x \in S : \A y \in S : Md5Rank[x] <= Md5Rank[y]
       IN <<m>> \o SortedMd5s(S \ {m})

RECURSIVE GROUP_CONCAT(_)
\* GROUP_CONCAT(file_id): the ids of a group, in the rowid order of its
\* rows, joined by ','
GROUP_CONCAT(ids) ==
  IF Len(ids) = 1 THEN ids[1]
  ELSE ids[1] \o <<",">> \o GROUP_CONCAT(Tail(ids))

RECURSIVE split(_)
\* str.split(",")
split(s) ==
  IF \E i \in 1..Len(s) : s[i] = ","
  THEN LET i == CHOOSE k \in 1..Len(s) :
                  s[k] = "," /\ \A j \in 1..(k - 1) : s[j] # ","
       IN <<SubSeq(s, 1, i - 1)>> \o split(SubSeq(s, i + 1, Len(s)))
  ELSE <<s>>

\* a Python dict as the sequence of its items in insertion order
Item(k, v) == [key |-> k, val |-> v]

\* the file_id column of a sequence of rows
IdsOf(rows) == [i \in 1..Len(rows) |-> rows[i].file_id]

find_by_size(table, min_size) ==
  LET live == SelectSeq(table, LAMBDA r :
                 r.trashed = 0 /\ r.size >= min_size /\ r.md5 # NoneMd5)
      members(s) == IdsOf(SelectSeq(live, LAMBDA r : r.size = s))
      keys == SortedInts({r.size : r \in {q \in Rows(live) :
                            Len(members(q.size)) > 1}})
  IN [i \in 1..Len(keys) |->
        Item(keys[i], split(GROUP_CONCAT(members(keys[i]))))]

find_by_md5(table, md5_list) ==
  LET wanted == {md5_list[i] : i \in 1..Len(md5_list)}
      live == SelectSeq(table, LAMBDA r : r.trashed = 0 /\ r.md5 \in wanted)
      members(m) == IdsOf(SelectSeq(live, LAMBDA r : r.md5 = m))
      keys == SortedMd5s({r.md5 : r \in {q \in Rows(live) :
                            Len(members(q.md5)) > 1}})
      rows == [i \in 1..Len(keys) |->
                 Item(keys[i], split(GROUP_CONCAT(members(keys[i]))))]
  IN SelectSeq(rows, LAMBDA it : it.key # NoneMd5 /\ it.key # "")

\* SELECT * FROM files WHERE file_id IN (...)  (no trashed filter)
get_files_by_ids(table, file_ids) ==
  IF file_ids = <<>> THEN <<>>
  ELSE LET wanted == {file_ids[i] : i \in 1..Len(file_ids)}
           found == SortedIds({r.file_id : r \in {q \in Rows(table) :
                                 q.file_id \in wanted}})
       IN [i \in 1..Len(found) |->
             _row_to_file(CHOOSE r \in Rows(table) : r.file_id = found[i])]

(***************************************************************************)
(* detector/size_pass.py, checksum_pass.py, byte_pass.py, pipeline.py      *)
(* A call returns [status, value]; status is "ok" or the exception raised. *)
(***************************************************************************)
Ok(v) == [status |-> "ok", value |-> v]
Raise(e) == [status |-> e, value |-> <<>>]

RECURSIVE Flatten(_)
\* [file_id for file_ids in groups.values() for file_id in file_ids]
Flatten(items) ==
  IF items = <<>> THEN <<>> ELSE Head(items).val \o Flatten(Tail(items))

\* SizePass.find_candidates: the log line divides by len(candidates)
SizePass_find_candidates(table, min_size) ==
  LET candidates == find_by_size(table, min_size)
  IN IF Len(candidates) = 0 THEN Raise("ZeroDivisionError")
     ELSE Ok(candidates)

\* ChecksumPass.find_duplicates: the log line divides by len(md5_groups)
ChecksumPass_find_duplicates(table, size_groups) ==
  LET all_file_ids == Flatten(size_groups)
      files == get_files_by_ids(table, all_file_ids)
      with_md5 == SelectSeq(files, LAMBDA f : f.md5 # NoneMd5 /\ f.md5 # "")
      md5_list == [i \in 1..Len(with_md5) |-> with_md5[i].md5]
      md5_groups == find_by_md5(table, md5_list)
  IN IF all_file_ids = <<>> THEN Ok(<<>>)
     ELSE IF md5_list = <<>> THEN Ok(<<>>)
     ELSE IF Len(md5_groups) = 0 THEN Raise("ZeroDivisionError")
     ELSE Ok(md5_groups)

\* BytePass.verify_duplicates: a placeholder, returns its argument
BytePass_verify_duplicates(md5_groups) == md5_groups

\* mutant: the groups are left in the order they were built
SortByWasted_unsorted(gs) == gs

RECURSIVE SortByWasted(_)
\* list.sort(key=wasted_size, reverse=True): stable, largest first
SortByWasted(gs) ==
  IF gs = <<>> THEN <<>>
  ELSE LET i == CHOOSE k \in 1..Len(gs) :
                  /\ \A j \in 1..Len(gs) : wasted_size(gs[j]) <= wasted_size(gs[k])
                  /\ \A j \in 1..(k - 1) : wasted_size(gs[j]) < wasted_size(gs[k])
       IN <<gs[i]>> \o SortByWasted(SubSeq(gs, 1, i - 1) \o SubSeq(gs, i + 1, Len(gs)))

\* the loop of detect_duplicates that turns md5 groups into DuplicateGroups
AssembleGroups(table, md5_groups) ==
  LET built == [i \in 1..Len(md5_groups) |->
                  LET files == get_files_by_ids(table, md5_groups[i].val)
                  IN IF Len(files) > 1
                     THEN <<DuplicateGroup(i, files, files[1].size, md5_groups[i].key)>>
                     ELSE <<>>]
      cat[i \in 0..Len(built)] == IF i = 0 THEN <<>> ELSE cat[i - 1] \o built[i]
  IN cat[Len(built)]

\* DetectionPipeline.detect_duplicates; calls lists the passes it invoked
detect_duplicates(table, min_size, byte_compare) ==
  LET sp == SizePass_find_candidates(table, min_size)
      cp == ChecksumPass_find_duplicates(table, sp.value)
      md5_groups == IF byte_compare THEN BytePass_verify_duplicates(cp.value)
                    ELSE cp.value
      tail == IF byte_compare THEN <<"byte_pass", "assemble">> ELSE <<"assemble">>
  IN IF sp.status # "ok"
     THEN [status |-> sp.status, groups |-> <<>>, calls |-> <<"size_pass">>]
     ELSE IF Len(sp.value) = 0
     THEN [status |-> "ok", groups |-> <<>>, calls |-> <<"size_pass">>]
     ELSE IF cp.status # "ok"
     THEN [status |-> cp.status, groups |-> <<>>,
           calls |-> <<"size_pass", "checksum_pass">>]
     ELSE IF Len(cp.value) = 0
     THEN [status |-> "ok", groups |-> <<>>,
           calls |-> <<"size_pass", "checksum_pass">>]
     ELSE [status |-> "ok",
           groups |-> SortByWasted(AssembleGroups(table, md5_groups)),
           calls |-> <<"size_pass", "checksum_pass">> \o tail]

\* the FileIndex methods a pass of the pipeline calls, in order
IndexCallsOf(pass) ==
  CASE pass = "size_pass" -> <<"find_by_size">>
    [] pass = "checksum_pass" -> <<"get_files_by_ids", "find_by_md5">>
    [] pass = "byte_pass" -> <<>>
    [] pass = "assemble" -> <<"get_files_by_ids">>

\* mutant: a read that empties the table
table_after_cleared(table, method) == <<>>

\* the table after a FileIndex method: the reads execute one SELECT, clear
\* executes DELETE FROM files
table_after(table, method) ==
  IF method = "clear" THEN <<>> ELSE table

RECURSIVE table_after_all(_, _)
table_after_all(table, methods) ==
  IF methods = <<>> THEN table
  ELSE table_after_all(table_after(table, Head(methods)), Tail(methods))

RECURSIVE table_after_passes(_, _)
\* the table after the passes a detection run invoked
table_after_passes(table, passes) ==
  IF passes = <<>> THEN table
  ELSE table_after_passes(table_after_all(table, IndexCallsOf(Head(passes))),
                          Tail(passes))

(***************************************************************************)
(* State.                                                                  *)
(***************************************************************************)
VARIABLES
  s_pc, s_name, s_group, s_keep, s_trash,   \* a strategy applied to a group
  index, d_pc, d_min_size, d_byte, d_result, \* the index, one detection run
  remote, sent, tokens,                      \* remote store, requests, limiter
  c_pc, c_id, c_dry, c_attempt, c_delay,     \* one trash_file call in progress
  c_requests, c_acquired, c_resp, c_ret,
  b_pc, b_ids, b_dry, b_i, b_called, b_rets, b_results, \* one trash_files call
  x_pc, x_opts, x_dry, x_confirm, x_rename, x_ids, x_i, \* one delete command
  x_results, x_code,
  w_pc, w_calls, w_delay, w_sleeps, w_log, w_ret, \* one call of a wrapped function
  l_tokens, l_elapsed, l_lock, l_pc, l_n, l_blocking, \* a limiter and its callers
  l_ret, l_granted, l_clock,
  i_pc, i_list, i_once, i_last, i_read, \* callers of the index on its own
  k_pc, k_resume, k_listing, k_pos, k_batch, k_ckpt, \* scan runs
  k_written, k_crashes

stratVars == <<s_pc, s_name, s_group, s_keep, s_trash>>
detVars == <<index, d_pc, d_min_size, d_byte, d_result>>
storeVars == <<remote, sent, tokens>>
callVars == <<c_pc, c_id, c_dry, c_attempt, c_delay, c_requests, c_acquired,
              c_resp, c_ret>>
batchVars == <<b_pc, b_ids, b_dry, b_i, b_called, b_rets, b_results>>
cmdVars == <<x_pc, x_opts, x_dry, x_confirm, x_rename, x_ids, x_i, x_results,
             x_code>>
wrapVars == <<w_pc, w_calls, w_delay, w_sleeps, w_log, w_ret>>
coreVars == <<stratVars, detVars, storeVars, callVars, batchVars, cmdVars>>
limVars == <<l_tokens, l_elapsed, l_lock, l_pc, l_n, l_blocking, l_ret, l_granted,
             l_clock>>
ixVars == <<i_pc, i_list, i_once, i_last, i_read>>
scanVars == <<k_pc, k_resume, k_listing, k_pos, k_batch, k_ckpt, k_written,
              k_crashes>>
auxVars == <<wrapVars, limVars, ixVars, scanVars>>
vars == <<coreVars, auxVars>>

NoResult == [status |-> "none", groups |-> <<>>, calls |-> <<>>]

StratIdle ==
  /\ s_pc = "idle" /\ s_name = "newest" /\ s_keep = NoneStr /\ s_trash = <<>>
  /\ s_group = DuplicateGroup(0, <<>>, 0, NoneMd5)
DetIdle ==
  /\ index = <<>> /\ d_pc = "idle" /\ d_min_size = 0 /\ d_byte = FALSE
  /\ d_result = NoResult
CallIdle ==
  /\ c_pc = "idle" /\ c_id = NoneStr /\ c_dry = FALSE /\ c_attempt = 0
  /\ c_delay = base_delay /\ c_requests = 0 /\ c_acquired = 0 /\ c_resp = -1
  /\ c_ret = "none"
BatchIdle ==
  /\ b_pc = "idle" /\ b_ids = <<>> /\ b_dry = FALSE /\ b_i = 0
  /\ b_called = <<>> /\ b_rets = <<>> /\ b_results = <<>>
\* the options of the delete command
Options(strategy, keep_path, same_folder_only, min_size, dry_run, execute, yes) ==
  [strategy |-> strategy, keep_path |-> keep_path,
   same_folder_only |-> same_folder_only, min_size |-> min_size,
   dry_run |-> dry_run, execute |-> execute, yes |-> yes]
DefaultOptions == Options(KeyText("merge-names"), NoneStr, TRUE, 0, TRUE, FALSE, FALSE)
CmdIdle ==
  /\ x_pc = "idle" /\ x_opts = DefaultOptions /\ x_dry = TRUE
  /\ x_confirm = "none" /\ x_rename = <<>> /\ x_ids = <<>> /\ x_i = 0
  /\ x_results = <<>> /\ x_code = 0
WrapIdle ==
  /\ w_pc = "idle" /\ w_calls = 0 /\ w_delay = base_delay /\ w_sleeps = <<>>
  /\ w_log = <<>> /\ w_ret = "none"
\* the threads that may call acquire on one limiter
Threads == {"t1", "t2"}
LimIdle ==
  /\ l_tokens = BucketCapacity /\ l_elapsed = 0 /\ l_lock = "none"
  /\ l_pc = [t \in Threads |-> "idle"] /\ l_n = [t \in Threads |-> 1]
  /\ l_blocking = [t \in Threads |-> TRUE]
  /\ l_ret = [t \in Threads |-> "none"]
  /\ l_granted = 0 /\ l_clock = 0
NoRead == [op |-> "none", ret |-> <<>>]
IxIdle ==
  /\ i_pc = "idle" /\ i_list = <<>> /\ i_once = <<>> /\ i_last = <<>>
  /\ i_read = NoRead
ScanIdle ==
  /\ k_pc = "idle" /\ k_resume = FALSE /\ k_listing = <<>> /\ k_pos = 0
  /\ k_batch = <<>> /\ k_ckpt = -1 /\ k_written = <<>> /\ k_crashes = 0
AuxIdle == WrapIdle /\ LimIdle /\ IxIdle /\ ScanIdle
TrashIdle ==
  /\ remote = [id \in {} |-> "live"] /\ sent = {} /\ tokens = BucketCapacity
  /\ CallIdle /\ BatchIdle /\ CmdIdle

(***************************************************************************)
(* Strategies applied to arbitrary duplicate groups.                       *)
(***************************************************************************)
\* the names of the members: the first and the third file carry one name
MemberNames == << <<"a">>, <<"b">>, <<"a">>, <<"b">>, <<"a">> >>

\* groups of 2..MaxGroup members with pairwise distinct ids, one checksum
GroupsOf(n) ==
  {DuplicateGroup(1, [i \in 1..n |->
       FileRecord(AllIds[i], MemberNames[i], 1, "x", pm[i][2], pm[i][1], FALSE)],
       1, "x") : pm \in [1..n -> Paths \X (1..MaxTime)]}

StrategyInit ==
  /\ DetIdle /\ TrashIdle /\ AuxIdle
  /\ s_pc = "start" /\ s_trash = <<>>
  /\ s_name \in StrategyNames
  /\ s_keep \in Patterns
  /\ \E n \in 2..MaxGroup : s_group \in GroupsOf(n)

Select ==
  /\ s_pc = "start"
  /\ s_trash' = select_files_to_trash(s_name, s_group, s_keep)
  /\ s_pc' = "selected"
  /\ UNCHANGED <<s_name, s_group, s_keep, detVars, storeVars, callVars, batchVars,
                 cmdVars,
                 auxVars>>

StrategyNext == Select
StrategySpec == StrategyInit /\ [][StrategyNext]_vars

\* C1: for every strategy, group (count >= 2, distinct ids) and keep_path,
\* select_files_to_trash returns strictly fewer files than the group has
\* members, so at least one member is retained.
C1_NeverTrashesAll ==
  s_pc = "selected" => Len(s_trash) < count(s_group)

\* the fallback of the path strategy (pattern matches no member) has run
C1_Witness ==
  /\ s_pc = "selected" /\ s_name = "path" /\ Truthy(s_keep)
  /\ matching_files(s_group, s_keep) = <<>>
  /\ Len(s_trash) = count(s_group) - 1

(***************************************************************************)
(* Detection over arbitrary index contents.                                *)
(***************************************************************************)
\* the path of the files of the detection runs: all lie in folder c
DefaultPath == get_file_path(<< <<"c">> >>)

\* the records a scan may have stored: any size, checksum and trashed flag;
\* the file is named after its id
ScanRecord(id, sz, m, tr) ==
  FileRecord(id, id, sz, m, 1, DefaultPath, tr)

\* the orders in which the ids of a set may have been inserted
Orders(S) ==
  {p \in [1..Cardinality(S) -> S] :
     \A i, j \in 1..Cardinality(S) : i # j => p[i] # p[j]}

\* two of them: ascending and descending ids
EndOrders(S) ==
  {SortedIds(S), [i \in 1..Cardinality(S) |-> SortedIds(S)[Cardinality(S) + 1 - i]]}

\* the table add_files builds from the records of the ids p, in this
\* order; a gives the size, checksum and trashed flag of each
ScannedTable(p, a) ==
  add_files(<<>>, [i \in 1..Len(p) |->
                     ScanRecord(p[i], a[p[i]][1], a[p[i]][2], a[p[i]][3])])

\* table is one of the tables add_files can have built from such records,
\* inserted in any order
IndexContents(table, ids) ==
  \E S \in SUBSET ids :
    \E a \in [S -> (1..MaxSize) \X Md5s \X BOOLEAN], p \in Orders(S) :
      table = ScannedTable(p, a)

MinSizes == 0..MaxSize

DetectInit ==
  /\ StratIdle /\ TrashIdle /\ AuxIdle
  /\ IndexContents(index, FileIds)
  /\ d_pc = "start" /\ d_min_size = 0 /\ d_byte = FALSE /\ d_result = NoResult

Detect ==
  /\ d_pc = "start"
  /\ \E ms \in MinSizes, bc \in BOOLEAN :
       /\ d_min_size' = ms
       /\ d_byte' = bc
       /\ \E res \in {detect_duplicates(index, ms, bc)} :
            /\ d_result' = res
            /\ index' = table_after_passes(index, res.calls)
  /\ d_pc' = "done"
  /\ UNCHANGED <<stratVars, storeVars, callVars, batchVars, cmdVars,
                 auxVars>>

DetectNext == Detect
DetectSpec == DetectInit /\ [][DetectNext]_vars

\* the non-trashed records of the index
Active == {_row_to_file(r) : r \in {q \in Rows(index) : q.trashed = 0}}
Members(g) == {g.files[i] : i \in 1..Len(g.files)}
Returned == d_pc = "done" /\ d_result.status = "ok"
Groups == {d_result.groups[i] : i \in 1..Len(d_result.groups)}

\* C3: every DuplicateGroup returned by detect_duplicates has at least 2
\* members, all of the group's size and all of the group's checksum.
C3_GroupsAreDuplicates ==
  Returned =>
    \A g \in Groups :
      /\ count(g) >= 2
      /\ \A f \in Members(g) : f.size = g.size /\ f.md5 = g.md5

\* records that pass the filter of the size pass for the run's min_size
Eligible == {f \in Active : f.size >= d_min_size /\ f.md5 # NoneMd5}
\* records the size pass keeps: eligible and sharing their size
Candidates == {f \in Eligible : \E h \in Eligible : h # f /\ h.size = f.size}
Holders(m) == {f \in Active : f.md5 = m}
GroupMd5s == {g.md5 : g \in Groups}

\* C4: the result has exactly one group for each checksum held by at least 2
\* non-trashed records of size >= min_size and no other group, the members of
\* a group are exactly the non-trashed records with that checksum, and a
\* record whose checksum no other non-trashed record holds is in no group.
C4_OneGroupPerSharedChecksum ==
  Returned =>
    /\ GroupMd5s = {m \in Md5s \ {NoneMd5, ""} :
                      Cardinality({f \in Holders(m) : f.size >= d_min_size}) >= 2}
    /\ Cardinality(Groups) = Cardinality(GroupMd5s)
    /\ \A g \in Groups : Members(g) = Holders(g.md5)
    /\ \A f \in Active : Cardinality(Holders(f.md5)) = 1 =>
         \A g \in Groups : f \notin Members(g)

\* C5: when records collide on size but no two non-trashed records share a
\* checksum, detect_duplicates completes normally with an empty list.
C5_SizeCollisionOnlyIsEmpty ==
  (/\ d_pc = "done"
   /\ Candidates # {}
   /\ \A f \in Active, h \in Active : f # h => f.md5 # h.md5)
  => (d_result.status = "ok" /\ d_result.groups = <<>>)

\* C6: zero size candidates give an empty result without error and without
\* the checksum pass and byte pass; zero checksum groups give an empty result
\* without the byte pass and group assembly.
C6_ShortCircuit ==
  d_pc = "done" =>
    /\ Candidates = {} =>
         /\ d_result.status = "ok" /\ d_result.groups = <<>>
         /\ d_result.calls = <<"size_pass">>
    /\ (/\ Candidates # {}
        /\ \A f \in Candidates : f.md5 = "" \/ Cardinality(Holders(f.md5)) < 2) =>
         /\ d_result.status = "ok" /\ d_result.groups = <<>>
         /\ d_result.calls = <<"size_pass", "checksum_pass">>

(***************************************************************************)
(* common/rate_limiter.py, run by a single caller.  The clock advances in  *)
(* ticks of 1/rate seconds, so one tick refills one token.                 *)
(***************************************************************************)
Min(a, b) == IF a <= b THEN a ELSE b

\* self.tokens = min(self.capacity, self.tokens + elapsed * self.rate)
Refill(tk, elapsed) == Min(BucketCapacity, tk + elapsed)

\* acquire(tokens=1, blocking=True): refill, take the token if there is one,
\* else sleep for the missing amount (waking up `late` ticks late) and retry
acquire(tk, elapsed, late) ==
  LET t1 == Refill(tk, elapsed)
  IN IF t1 >= 1 THEN t1 - 1
     ELSE Refill(t1, (1 - t1) + late) - 1

(***************************************************************************)
(* common/retry.py: what the wrapper does with the outcome of one attempt. *)
(* An outcome is [kind, ret, status]: kind "return" with the value ret,    *)
(* kind "HttpError" with the status, or kind "Exception" of type ret.      *)
(***************************************************************************)
\* mutant: client errors are retried like transient ones
exponential_backoff_retries_all(attempt, delay, out) ==
  IF out.kind = "return"
  THEN [act |-> "return", ret |-> out.ret, delay |-> delay]
  ELSE IF attempt = max_retries
  THEN [act |-> "raise", ret |-> out.ret, delay |-> delay]
  ELSE [act |-> "retry", ret |-> "none", delay |-> Min(delay * 2, max_delay)]

\* mutant: the last attempt is not recognised
exponential_backoff_unbounded(attempt, delay, out) ==
  IF out.kind = "return"
  THEN [act |-> "return", ret |-> out.ret, delay |-> delay]
  ELSE IF out.kind = "HttpError"
  THEN IF out.status < 500 /\ out.status # 429
       THEN [act |-> "raise", ret |-> "HttpError", delay |-> delay]
       ELSE [act |-> "retry", ret |-> "none",
             delay |-> Min(delay * 2, max_delay)]
  ELSE [act |-> "raise", ret |-> out.ret, delay |-> delay]

exponential_backoff(attempt, delay, out) ==
  IF out.kind = "return"
  THEN [act |-> "return", ret |-> out.ret, delay |-> delay]
  ELSE IF out.kind = "HttpError"
  THEN IF out.status < 500 /\ out.status # 429
       THEN [act |-> "raise", ret |-> "HttpError", delay |-> delay]
       ELSE IF attempt = max_retries
       THEN [act |-> "raise",
             ret |-> IF out.status = 429 THEN "RateLimitError" ELSE "HttpError",
             delay |-> delay]
       ELSE [act |-> "retry", ret |-> "none",
             delay |-> Min(delay * 2, max_delay)]
  ELSE [act |-> "raise", ret |-> out.ret, delay |-> delay]

(***************************************************************************)
(* The remote store, as far as the executor can see it.                    *)
(***************************************************************************)
\* the ids handed to the executor
TrashIds == {AllIds[1], AllIds[2]}

Request(method, id, body) == [method |-> method, fileId |-> id, body |-> body]

\* what the store does with a request it accepts
RemoteApply(rem, req) ==
  IF req.method = "files.update" /\ req.body = "trashed=true"
  THEN [rem EXCEPT ![req.fileId] = "trashed"]
  ELSE IF req.method = "files.delete"
  THEN [rem EXCEPT ![req.fileId] = "absent"]
  ELSE rem

\* the answers the store may give: 200 for a file it has, an HTTP error
\* status, or 0 for a failure below HTTP (connection lost, timeout)
Responses(rem, id) ==
  (IF rem[id] # "absent" THEN {200} ELSE {}) \cup {404, 403, 429, 500, 0}

(***************************************************************************)
(* actions/trash.py                                                        *)
(***************************************************************************)
\* mutant: the executor hard-deletes
trash_file_delete(file_id, dry_run, svc_ok, resp) ==
  IF dry_run
  THEN [kind |-> "return", ret |-> "True", status |-> 0, acquired |-> 0,
        request |-> <<>>]
  ELSE [kind |-> IF resp = 200 THEN "return" ELSE "Exception",
        ret |-> IF resp = 200 THEN "True" ELSE "ActionError",
        status |-> 0, acquired |-> 1,
        request |-> <<Request("files.delete", file_id, "")>>]

\* mutant: not-found is surfaced as an ActionError like any other failure
trash_file_404_raises(file_id, dry_run, svc_ok, resp) ==
  IF dry_run
  THEN [kind |-> "return", ret |-> "True", status |-> 0, acquired |-> 0,
        request |-> <<>>]
  ELSE [kind |-> IF resp = 200 THEN "return" ELSE "Exception",
        ret |-> IF resp = 200 THEN "True" ELSE "ActionError",
        status |-> 0, acquired |-> 1,
        request |-> <<Request("files.update", file_id, "trashed=true")>>]

\* the body of TrashManager.trash_file, one execution: svc_ok tells whether
\* create_service() succeeds, resp is the store's answer to the request
trash_file(file_id, dry_run, svc_ok, resp) ==
  IF dry_run
  THEN [kind |-> "return", ret |-> "True", status |-> 0, acquired |-> 0,
        request |-> <<>>]
  ELSE IF ~svc_ok
  THEN [kind |-> "Exception", ret |-> "ActionError", status |-> 0,
        acquired |-> 0, request |-> <<>>]
  ELSE LET req == Request("files.update", file_id, "trashed=true")
       IN IF resp = 200
          THEN [kind |-> "return", ret |-> "True", status |-> 0,
                acquired |-> 1, request |-> <<req>>]
          ELSE IF resp = 404
          THEN [kind |-> "return", ret |-> "False", status |-> 0,
                acquired |-> 1, request |-> <<req>>]
          ELSE [kind |-> "Exception", ret |-> "ActionError", status |-> 0,
                acquired |-> 1, request |-> <<req>>]

\* a caller enters the decorated trash_file(file_id, dry_run)
EnterTrashFile(id, dry) ==
  /\ c_pc' = "running" /\ c_id' = id /\ c_dry' = dry
  /\ c_attempt' = 0 /\ c_delay' = base_delay
  /\ c_requests' = 0 /\ c_acquired' = 0 /\ c_resp' = -1 /\ c_ret' = "none"

\* one iteration of the wrapper's loop: run the body, then return, raise or
\* sleep and go round again
Attempt ==
  /\ c_pc = "running"
  /\ \E svc_ok \in BOOLEAN, resp \in Responses(remote, c_id),
        e \in 0..MaxElapsed, late \in 0..MaxElapsed :
       LET out == trash_file(c_id, c_dry, svc_ok, resp)
           w == exponential_backoff(c_attempt, c_delay, out)
           contacted == out.request # <<>>
       IN /\ sent' = IF contacted THEN sent \cup {out.request[1]} ELSE sent
          /\ remote' = IF contacted /\ resp = 200
                       THEN RemoteApply(remote, out.request[1]) ELSE remote
          /\ tokens' = IF out.acquired = 1 THEN acquire(tokens, e, late)
                       ELSE tokens
          /\ c_requests' = c_requests + (IF contacted THEN 1 ELSE 0)
          /\ c_acquired' = c_acquired + out.acquired
          /\ c_resp' = IF contacted THEN resp ELSE c_resp
          /\ c_attempt' = c_attempt + 1
          /\ c_delay' = w.delay
          /\ c_ret' = w.ret
          /\ c_pc' = IF w.act = "return" THEN "returned"
                     ELSE IF w.act = "raise" THEN "raised" ELSE "running"
  /\ UNCHANGED <<c_id, c_dry>>

\* results[file_id] = value, on a dict kept as its items in insertion order
DictSet(d, k, v) ==
  IF \E i \in 1..Len(d) : d[i].key = k
  THEN [i \in 1..Len(d) |-> IF d[i].key = k THEN Item(k, v) ELSE d[i]]
  ELSE Append(d, Item(k, v))
DictKeys(d) == {d[i].key : i \in 1..Len(d)}
DictGet(d, k) == (CHOOSE it \in {d[i] : i \in 1..Len(d)} : it.key = k).val

\* mutant: a failed id is left out of the results
record_result_drops_failures(results, file_id, pc, ret) ==
  IF pc = "returned" /\ ret = "True" THEN DictSet(results, file_id, TRUE)
  ELSE results

\* the body of the for loop of trash_files once trash_file has ended:
\* the returned value, or False after an ActionError
record_result(results, file_id, pc, ret) ==
  IF pc = "returned" THEN DictSet(results, file_id, ret = "True")
  ELSE DictSet(results, file_id, FALSE)

IdLists == UNION {[1..n -> TrashIds] : n \in 0..MaxBatch}

(***************************************************************************)
(* The executor at work: callers invoke trash_file or trash_files, one     *)
(* call after the other, against a store in any state.                     *)
(***************************************************************************)
TrashInit ==
  /\ StratIdle /\ DetIdle /\ CallIdle /\ BatchIdle /\ CmdIdle /\ AuxIdle
  /\ remote \in [TrashIds -> {"live", "trashed", "absent"}]
  /\ sent = {}
  /\ tokens = BucketCapacity

NoCallRunning == c_pc # "running" /\ b_pc \in {"idle", "done", "raised"}

\* trash_file(file_id, dry_run) called directly
CallTrashFile ==
  /\ NoCallRunning
  /\ \E id \in TrashIds, dry \in BOOLEAN : EnterTrashFile(id, dry)
  /\ b_pc' = "idle" /\ b_ids' = <<>> /\ b_dry' = FALSE /\ b_i' = 0
  /\ b_called' = <<>> /\ b_rets' = <<>> /\ b_results' = <<>>
  /\ UNCHANGED <<storeVars, stratVars, detVars, cmdVars,
                 auxVars>>

TrashAttempt == Attempt /\ UNCHANGED <<batchVars, stratVars, detVars, cmdVars,
                 auxVars>>

\* trash_files(file_ids, dry_run): results = {}
CallTrashFiles ==
  /\ NoCallRunning
  /\ \E ids \in IdLists, dry \in BOOLEAN :
       /\ b_ids' = ids /\ b_dry' = dry
       /\ b_pc' = IF ids = <<>> THEN "done" ELSE "loop"
  /\ b_i' = 0 /\ b_called' = <<>> /\ b_rets' = <<>> /\ b_results' = <<>>
  /\ UNCHANGED <<storeVars, callVars, stratVars, detVars, cmdVars,
                 auxVars>>

\* for file_id in file_ids: ... self.trash_file(file_id, dry_run)
BatchCall ==
  /\ b_pc = "loop"
  /\ EnterTrashFile(b_ids[b_i + 1], b_dry)
  /\ b_called' = Append(b_called, b_ids[b_i + 1])
  /\ b_pc' = "calling"
  /\ UNCHANGED <<b_ids, b_dry, b_i, b_rets, b_results, storeVars, stratVars,
                 detVars, cmdVars,
                 auxVars>>

\* the call has ended: store its value, or False after an ActionError; any
\* other exception leaves trash_files
BatchRecord ==
  /\ b_pc = "calling"
  /\ c_pc \in {"returned", "raised"}
  /\ IF c_pc = "raised" /\ c_ret # "ActionError"
     THEN /\ b_pc' = "raised"
          /\ UNCHANGED <<b_i, b_rets, b_results>>
     ELSE /\ b_results' = record_result(b_results, b_ids[b_i + 1], c_pc, c_ret)
          /\ b_rets' = Append(b_rets, c_ret)
          /\ b_i' = b_i + 1
          /\ b_pc' = IF b_i + 1 = Len(b_ids) THEN "done" ELSE "loop"
  /\ UNCHANGED <<b_ids, b_dry, b_called, storeVars, callVars, stratVars,
                 detVars, cmdVars,
                 auxVars>>

TrashNext ==
  \/ CallTrashFile
  \/ TrashAttempt
  \/ CallTrashFiles
  \/ BatchCall
  \/ BatchRecord
TrashSpec == TrashInit /\ [][TrashNext]_vars

CallEnded == c_pc \in {"returned", "raised"}

\* C2: the only mutating request the executor ever sends is "set
\* trashed=true" on the id it was given, and no step of the executor removes
\* a file from the store for good.
C2_OnlyTrashNeverDelete ==
  [][/\ sent' \ sent \subseteq
          {Request("files.update", c_id, "trashed=true")}
     /\ \A id \in TrashIds :
          /\ remote[id] # "absent" => remote'[id] # "absent"
          /\ remote'[id] # remote[id] =>
               id = c_id /\ remote'[id] = "trashed"]_vars

\* a live call was answered 200 and the file went to the trash
C2_Witness ==
  /\ c_pc = "returned" /\ ~c_dry /\ c_resp = 200 /\ c_ret = "True"
  /\ remote[c_id] = "trashed"
  /\ Request("files.update", c_id, "trashed=true") \in sent

\* C8: a live trash_file call that the store answers with not-found returns
\* False without raising, after a single attempt (one request, one token).
C8_NotFoundReturnsFalse ==
  (CallEnded /\ ~c_dry /\ c_resp = 404) =>
    /\ c_pc = "returned" /\ c_ret = "False"
    /\ c_attempt = 1 /\ c_requests = 1 /\ c_acquired = 1

\* the second call on an id already in the trash, answered not-found
C8_Witness ==
  /\ c_pc = "returned" /\ ~c_dry /\ c_resp = 404 /\ c_ret = "False"
  /\ c_attempt = 1
  /\ remote[c_id] = "trashed"
  /\ Request("files.update", c_id, "trashed=true") \in sent

\* C9: a live trash_file call whose request fails with a 5xx or 429 answer
\* ends in ActionError only after max_retries + 1 attempts.
C9_TransientRetried ==
  (c_pc = "raised" /\ ~c_dry /\ c_resp \in {429, 500}) =>
    c_ret = "ActionError" /\ c_attempt = max_retries + 1

\* C10: trash_files calls trash_file for the ids of its list in order and
\* never stops early; the outcome of every call is recorded for its id as
\* soon as the call ends, False for an ActionError or a not-found; and the
\* returned dict has an entry for every distinct id of the list.
C10_BatchCompletes ==
  /\ b_pc # "raised"
  /\ Len(b_called) <= Len(b_ids)
  /\ b_called = SubSeq(b_ids, 1, Len(b_called))
  /\ Len(b_rets) >= 1 =>
       /\ b_ids[Len(b_rets)] \in DictKeys(b_results)
       /\ DictGet(b_results, b_ids[Len(b_rets)]) = (b_rets[Len(b_rets)] = "True")
  /\ b_pc = "done" =>
       /\ b_called = b_ids
       /\ Len(b_rets) = Len(b_ids)
       /\ DictKeys(b_results) = {b_ids[i] : i \in 1..Len(b_ids)}

\* a batch whose first id failed with ActionError went on to trash the next
C10_Witness ==
  /\ b_pc = "done" /\ ~b_dry /\ Len(b_ids) >= 2
  /\ b_rets[1] = "ActionError" /\ b_rets[2] = "True"
  /\ b_ids[1] # b_ids[2]
  /\ DictGet(b_results, b_ids[1]) = FALSE
  /\ DictGet(b_results, b_ids[2]) = TRUE

(***************************************************************************)
(* cli/delete_cmd.py                                                       *)
(***************************************************************************)
\* mutant: the command always runs live
effective_dry_run_off(dry_run, execute) == FALSE

\* if execute: dry_run = False
effective_dry_run(dry_run, execute) == IF execute THEN FALSE ELSE dry_run

\* [g for g in duplicate_groups if g.are_all_in_same_folder()]
same_folder_groups(groups) ==
  SelectSeq(groups, LAMBDA g : are_all_in_same_folder(g))

\* for group in duplicate_groups: rename_info = get_rename_info(group); the
\* groups that have one, in order
first_rename_infos(groups) ==
  SelectSeq([i \in 1..Len(groups) |->
               [group |-> groups[i], info |-> get_rename_info(groups[i], FALSE)]],
            LAMBDA e : e.info # <<>>)

\* the entry of a group whose name is also the new name of another group is
\* computed again, with the size
resolve_conflict(e, again, group_rename_map) ==
  IF /\ \E j \in 1..Len(group_rename_map) :
          /\ group_rename_map[j].group.group_id # e.group.group_id
          /\ group_rename_map[j].info[1].new_name = e.info[1].new_name
     /\ again # <<>>
  THEN again[1] ELSE e.info[1]

final_renames(group_rename_map) ==
  [i \in 1..Len(group_rename_map) |->
     resolve_conflict(group_rename_map[i],
                      get_rename_info(group_rename_map[i].group, TRUE),
                      group_rename_map)]

\* files_to_rename.append((file_to_keep.file_id, file_to_keep.name, new_name))
rename_entry(info) ==
  [file_id |-> info.file.file_id, old_name |-> info.file.name,
   new_name |-> info.new_name]

\* the rename operations of a run
collect_renames(groups) ==
  [i \in 1..Len(groups) |-> rename_entry(groups[i])]

\* where a stopped command goes, with its exit code
Stop(pc, code) ==
  [pc |-> pc, code |-> code, rename |-> <<>>, ids |-> <<>>, detected |-> FALSE]

\* from the collected files to the prompt
plan_collected(files_to_trash, renames, opts, dry_run) ==
  IF files_to_trash = <<>> THEN Stop("done", 0)
  ELSE [pc |-> IF ~opts.yes /\ ~dry_run THEN "confirm" ELSE "managers",
        code |-> 0, rename |-> renames,
        ids |-> [i \in 1..Len(files_to_trash) |-> files_to_trash[i].file_id],
        detected |-> FALSE]

\* from the groups that passed the folder filter to the collected files
plan_groups(groups, opts, dry_run) ==
  IF groups = <<>> THEN Stop("done", 0)
  ELSE plan_collected(
         Concat([i \in 1..Len(groups) |->
                   select_files_to_trash(opts.strategy, groups[i], opts.keep_path)]),
         IF opts.strategy = "merge-names"
         THEN collect_renames(final_renames(first_rename_infos(groups)))
         ELSE <<>>,
         opts, dry_run)

\* from the result of the detection to the folder filter
plan_detected(det, opts, dry_run) ==
  IF det.status # "ok" THEN Stop("exit", 1)
  ELSE IF det.groups = <<>> THEN Stop("done", 0)
  ELSE plan_groups(IF opts.same_folder_only THEN same_folder_groups(det.groups)
                   ELSE det.groups, opts, dry_run)

\* the command up to its confirmation prompt: where it goes next, its exit
\* code, and the renames and the ids to trash it has collected
\* the command after its strategy is validated; opts.strategy is the key of
\* deletion_strategy; detected tells whether detect_duplicates was called
plan_validated(table, opts, authenticated) ==
  IF ~authenticated THEN Stop("exit", 1)
  ELSE IF count_files(table) = 0 THEN Stop("exit", 1)
  ELSE [plan_detected(detect_duplicates(table, opts.min_size, FALSE), opts,
                      effective_dry_run(opts.dry_run, opts.execute))
          EXCEPT !.detected = TRUE]

\* mutant: the strategy name is looked at only after the detection
delete_plan_validates_late(table, opts, authenticated) ==
  IF get_strategy(opts.strategy) = "ValueError"
  THEN [Stop("exit", 1) EXCEPT !.detected = authenticated /\ count_files(table) # 0]
  ELSE plan_validated(table, [opts EXCEPT !.strategy = get_strategy(opts.strategy)],
                      authenticated)

delete_plan(table, opts, authenticated) ==
  IF get_strategy(opts.strategy) = "ValueError" THEN Stop("exit", 1)
  ELSE plan_validated(table, [opts EXCEPT !.strategy = get_strategy(opts.strategy)],
                      authenticated)

\* the index of a delete run: scanned files of size 1 and one checksum,
\* named after their ids, without a parent, in folder a, or in folder b
\* inside folder a
DeleteRecord(id, m, folder_names) ==
  FileRecord(id, id, 1, m, 1, get_file_path(folder_names), FALSE)
DeleteFolders == { <<>>, << <<"a">> >>, << <<"a">>, <<"b">> >> }
DeleteIndexContents(table, ids) ==
  \E S \in SUBSET ids :
    \E a \in [S -> {"x"} \X DeleteFolders], p \in EndOrders(S) :
      table = add_files(<<>>, [i \in 1..Len(p) |->
                                 DeleteRecord(p[i], a[p[i]][1], a[p[i]][2])])
DeleteOptions ==
  {Options(st, kp, sf, ms, dr, ex, ye) :
     st \in {KeyText("merge-names"), KeyText("newest"), KeyText("path"),
             <<"b", "o", "g", "u", "s">>, <<"O", "l", "d", "e", "s", "t">>},
     kp \in {NoneStr, <<"/", "a", "*">>},
     sf \in BOOLEAN, ms \in {0, MaxSize},
     dr \in BOOLEAN, ex \in BOOLEAN, ye \in BOOLEAN}

DeleteInit ==
  /\ StratIdle /\ CallIdle /\ BatchIdle /\ AuxIdle
  /\ DeleteIndexContents(index, FileIds)
  /\ d_pc = "idle" /\ d_min_size = 0 /\ d_byte = FALSE /\ d_result = NoResult
  /\ remote = [id \in FileIds |-> "live"] /\ sent = {}
  /\ tokens = BucketCapacity
  /\ x_pc = "start" /\ x_opts = DefaultOptions /\ x_dry = TRUE
  /\ x_confirm = "none" /\ x_rename = <<>> /\ x_ids = <<>> /\ x_i = 0
  /\ x_results = <<>> /\ x_code = 0

\* the command is invoked with one of the given option sets and runs to its
\* prompt or to its end
DeleteStartWith(option_sets) ==
  /\ x_pc = "start"
  /\ \E opts \in option_sets, authenticated \in BOOLEAN :
       /\ x_opts' = opts
       /\ x_dry' = effective_dry_run(opts.dry_run, opts.execute)
       /\ \E plan \in {delete_plan(index, opts, authenticated)} :
            /\ x_pc' = plan.pc /\ x_code' = plan.code
            /\ x_rename' = plan.rename /\ x_ids' = plan.ids
            /\ d_pc' = IF plan.detected THEN "done" ELSE d_pc
            /\ d_min_size' = IF plan.detected THEN opts.min_size ELSE d_min_size
            /\ d_result' = IF plan.detected
                           THEN detect_duplicates(index, opts.min_size, FALSE)
                           ELSE d_result
  /\ UNCHANGED <<x_confirm, x_i, x_results, index, d_byte, stratVars, storeVars,
                 callVars, batchVars,
                 auxVars>>

DeleteStart == DeleteStartWith(DeleteOptions)

\* typer.confirm(..., default=False)
DeleteConfirm ==
  /\ x_pc = "confirm"
  /\ \E confirm \in BOOLEAN :
       /\ x_confirm' = IF confirm THEN "yes" ELSE "no"
       /\ x_pc' = IF confirm THEN "managers" ELSE "done"
  /\ UNCHANGED <<x_opts, x_dry, x_rename, x_ids, x_i, x_results, x_code,
                 stratVars, detVars, storeVars, callVars, batchVars,
                 auxVars>>

\* a fresh rate limiter and trash manager; then the renames, if any
DeleteManagers ==
  /\ x_pc = "managers"
  /\ tokens' = BucketCapacity
  /\ x_pc' = IF x_rename # <<>> THEN "rename" ELSE "trash"
  /\ UNCHANGED <<x_opts, x_dry, x_confirm, x_rename, x_ids, x_i, x_results,
                 x_code, remote, sent, stratVars, detVars, callVars, batchVars,
                 auxVars>>

\* trash_manager.rename_file(...): TrashManager has no such method, the
\* AttributeError leaves the loop and the command exits with code 1
DeleteRename ==
  /\ x_pc = "rename"
  /\ x_pc' = "exit" /\ x_code' = 1
  /\ UNCHANGED <<x_opts, x_dry, x_confirm, x_rename, x_ids, x_i, x_results,
                 stratVars, detVars, storeVars, callVars, batchVars,
                 auxVars>>

\* for file_id in file_ids: trash_manager.trash_file(file_id, dry_run)
DeleteTrashCall ==
  /\ x_pc = "trash"
  /\ EnterTrashFile(x_ids[x_i + 1], x_dry)
  /\ x_pc' = "trashing"
  /\ UNCHANGED <<x_opts, x_dry, x_confirm, x_rename, x_ids, x_i, x_results,
                 x_code, stratVars, detVars, storeVars, batchVars,
                 auxVars>>

DeleteAttempt ==
  /\ x_pc = "trashing"
  /\ Attempt
  /\ UNCHANGED <<stratVars, detVars, batchVars, cmdVars,
                 auxVars>>

\* results[file_id] = success, or False after an ActionError; after the last
\* id the summary is printed
DeleteTrashRecord ==
  /\ x_pc = "trashing"
  /\ c_pc \in {"returned", "raised"}
  /\ IF c_pc = "raised" /\ c_ret # "ActionError"
     THEN /\ x_pc' = "exit" /\ x_code' = 1
          /\ UNCHANGED <<x_i, x_results>>
     ELSE /\ x_results' = DictSet(x_results, x_ids[x_i + 1],
                                  c_pc = "returned" /\ c_ret = "True")
          /\ x_i' = x_i + 1
          /\ x_pc' = IF x_i + 1 = Len(x_ids) THEN "done" ELSE "trash"
          /\ UNCHANGED x_code
  /\ UNCHANGED <<x_opts, x_dry, x_confirm, x_rename, x_ids, stratVars,
                 detVars, storeVars, callVars, batchVars,
                 auxVars>>

DeleteNext ==
  \/ DeleteStart
  \/ DeleteConfirm
  \/ DeleteManagers
  \/ DeleteRename
  \/ DeleteTrashCall
  \/ DeleteAttempt
  \/ DeleteTrashRecord
DeleteSpec == DeleteInit /\ [][DeleteNext]_vars

\* the run was asked to mutate, and the user agreed
RunIsLive == x_opts.execute \/ ~x_opts.dry_run
RunIsApproved == x_opts.yes \/ x_confirm = "yes"

\* C7: the delete command sends a mutating request only in a run with dry-run
\* off that was approved by --yes or at the prompt; in every other run the
\* store is left as it was, and each trash_file(id, dry_run=True) returns
\* True without a request and without taking a rate-limiter token.
C7_DryRunAndConfirmation ==
  /\ ~(RunIsLive /\ RunIsApproved) =>
       /\ sent = {}
       /\ \A id \in FileIds : remote[id] = "live"
  /\ (c_pc = "returned" /\ c_dry) =>
       /\ c_ret = "True" /\ c_attempt = 1
       /\ c_requests = 0 /\ c_acquired = 0 /\ tokens = BucketCapacity

\* a dry run went through its whole trash loop and reported success
C7_Witness ==
  /\ x_pc = "done" /\ ~RunIsLive /\ x_dry /\ Len(x_ids) >= 1
  /\ x_i = Len(x_ids)
  /\ \A i \in 1..Len(x_ids) : DictGet(x_results, x_ids[i]) = TRUE
  /\ sent = {} /\ \A id \in FileIds : remote[id] = "live"

\* C11: in a merge-names run that has a rename to do and was not cancelled,
\* a failing rename does not end the run: the command finishes normally and
\* its trash loop has handled every collected id.
C11_RenameFailureIsPerItem ==
  (x_pc \in {"exit", "done"} /\ x_rename # <<>> /\ x_confirm # "no") =>
    /\ x_pc = "done" /\ x_code = 0
    /\ x_i = Len(x_ids)
    /\ DictKeys(x_results) = {x_ids[i] : i \in 1..Len(x_ids)}

(***************************************************************************)
(* common/retry.py: a function wrapped by exponential_backoff(), called    *)
(* once; every invocation of the function may return or fail in any way.   *)
(***************************************************************************)
\* what one invocation of the wrapped function may do
Returns == [kind |-> "return", ret |-> "value", status |-> 200]
HttpErrorOf(st) == [kind |-> "HttpError", ret |-> "HttpError", status |-> st]
Throws(e) == [kind |-> "Exception", ret |-> e, status |-> 0]
FuncOutcomes ==
  {Returns, Throws("ValueError")}
    \cup {HttpErrorOf(st) : st \in {400, 404, 429, 500, 503}}

BackoffInit ==
  /\ StratIdle /\ DetIdle /\ TrashIdle /\ LimIdle /\ IxIdle /\ ScanIdle
  /\ w_pc = "idle" /\ w_calls = 0 /\ w_delay = base_delay /\ w_sleeps = <<>>
  /\ w_log = <<>> /\ w_ret = "none"

\* wrapper(*args, **kwargs): delay = base_delay
WrapEnter ==
  /\ w_pc = "idle"
  /\ w_pc' = "running" /\ w_delay' = base_delay
  /\ UNCHANGED <<w_calls, w_sleeps, w_log, w_ret, coreVars, limVars, ixVars, scanVars>>

\* one iteration of the loop: invoke the function, then return its value,
\* raise, or sleep for the delay and double it
WrapAttempt ==
  /\ w_pc = "running"
  /\ \E out \in FuncOutcomes :
       \E w \in {exponential_backoff(w_calls, w_delay, out)} :
         /\ w_calls' = w_calls + 1
         /\ w_log' = Append(w_log, out.status)
         /\ w_sleeps' = IF w.act = "retry" THEN Append(w_sleeps, w_delay)
                        ELSE w_sleeps
         /\ w_delay' = w.delay
         /\ w_ret' = w.ret
         /\ w_pc' = IF w.act = "return" THEN "returned"
                    ELSE IF w.act = "raise" THEN "raised" ELSE "running"
  /\ UNCHANGED <<coreVars, limVars, ixVars, scanVars>>

BackoffNext ==
  \/ WrapEnter
  \/ WrapAttempt
BackoffSpec == BackoffInit /\ [][BackoffNext]_vars

\* the outcome of the latest invocation
LastStatus == w_log[Len(w_log)]
Transient(st) == st >= 500 \/ st = 429
ClientError(st) == st \in 1..499 /\ st # 200 /\ st # 429

\* C12: once an invocation fails with a client error other than 429, or with
\* an exception that is not an HttpError, the wrapper raises that error at
\* once: no sleep follows and the function is not invoked again; when it is
\* the first invocation, the function was invoked exactly once.
C12_ClientErrorNotRetried ==
  /\ \A i \in 1..Len(w_log) :
       (ClientError(w_log[i]) \/ w_log[i] = 0) =>
         /\ i = Len(w_log) /\ w_calls = i
         /\ w_pc = "raised"
         /\ w_ret = (IF w_log[i] = 0 THEN "ValueError" ELSE "HttpError")
         /\ Len(w_sleeps) = i - 1
  /\ (w_log # <<>> /\ (ClientError(w_log[1]) \/ w_log[1] = 0)) =>
       w_calls = 1 /\ w_sleeps = <<>>

\* a 403 on the first invocation
C12_Witness ==
  /\ w_pc = "raised" /\ w_log = <<400>> /\ w_calls = 1
  /\ w_ret = "HttpError" /\ w_sleeps = <<>>

\* C13: the function is invoked at most max_retries + 1 times; when all of
\* these failed with 5xx or 429 the wrapper ends by raising (RateLimitError
\* after a final 429, else the HttpError); a successful invocation ends the
\* call at once with its value.
C13_BoundedRetries ==
  /\ w_calls <= max_retries + 1
  /\ w_calls = Len(w_log)
  /\ w_pc = "running" => w_calls <= max_retries
  /\ (w_calls = max_retries + 1 /\ Transient(LastStatus)) =>
       /\ w_pc = "raised"
       /\ w_ret = (IF LastStatus = 429 THEN "RateLimitError" ELSE "HttpError")
  /\ \A i \in 1..Len(w_log) :
       w_log[i] = 200 =>
         i = Len(w_log) /\ w_pc = "returned" /\ w_ret = "value"

\* six transient failures, the last a 429, with the delays doubling
C13_Witness ==
  /\ w_pc = "raised" /\ w_calls = max_retries + 1
  /\ w_log = <<500, 503, 429, 500, 503, 429>>
  /\ w_ret = "RateLimitError"
  /\ w_sleeps = <<1, 2, 4, 8, 16>>

(***************************************************************************)
(* common/rate_limiter.py with concurrent callers.  One clock tick is      *)
(* 1/rate seconds; l_elapsed is the time since last_update (any time of    *)
(* BucketCapacity ticks or more refills the bucket), l_clock the time      *)
(* since the limiter was built, counted up to MaxClock, and l_granted the  *)
(* tokens handed out so far.                                               *)
(***************************************************************************)
\* mutant: the lock does not exclude
lock_is_free_always(lock) == TRUE

\* with self.lock: the lock can be taken when nobody holds it
lock_is_free(lock) == lock = "none"

\* the time of the limiter after d more ticks
Later(elapsed, d) == Min(BucketCapacity, elapsed + d)
ClockLater(clock, d) == Min(MaxClock, clock + d)

LimiterInit ==
  /\ StratIdle /\ DetIdle /\ TrashIdle /\ WrapIdle /\ IxIdle /\ ScanIdle
  /\ l_tokens = BucketCapacity /\ l_elapsed = 0 /\ l_lock = "none"
  /\ l_pc = [t \in Threads |-> "idle"] /\ l_n = [t \in Threads |-> 1]
  /\ l_blocking = [t \in Threads |-> TRUE]
  /\ l_ret = [t \in Threads |-> "none"]
  /\ l_granted = 0 /\ l_clock = 0

\* a thread calls acquire(tokens=n, blocking)
LCall(t) ==
  /\ l_pc[t] = "idle"
  /\ \E n \in 1..(BucketCapacity + 1), blocking \in BOOLEAN :
       /\ l_n' = [l_n EXCEPT ![t] = n]
       /\ l_blocking' = [l_blocking EXCEPT ![t] = blocking]
  /\ l_pc' = [l_pc EXCEPT ![t] = "lock"]
  /\ UNCHANGED <<l_tokens, l_elapsed, l_lock, l_ret, l_granted, l_clock,
               coreVars, wrapVars, ixVars, scanVars>>

\* with self.lock:
LLock(t) ==
  /\ l_pc[t] = "lock"
  /\ lock_is_free(l_lock)
  /\ l_lock' = t
  /\ l_pc' = [l_pc EXCEPT ![t] = "refill"]
  /\ UNCHANGED <<l_tokens, l_elapsed, l_n, l_blocking, l_ret, l_granted, l_clock,
               coreVars, wrapVars, ixVars, scanVars>>

\* now = time.monotonic(); self.tokens = min(capacity, tokens + elapsed * rate);
\* self.last_update = now
LRefill(t) ==
  /\ l_pc[t] = "refill"
  /\ l_tokens' = Refill(l_tokens, l_elapsed)
  /\ l_elapsed' = 0
  /\ l_pc' = [l_pc EXCEPT ![t] = "check"]
  /\ UNCHANGED <<l_lock, l_n, l_blocking, l_ret, l_granted, l_clock,
               coreVars, wrapVars, ixVars, scanVars>>

\* if self.tokens >= tokens: ... / if not blocking: return False / else sleep
LCheck(t) ==
  /\ l_pc[t] = "check"
  /\ IF l_tokens >= l_n[t]
     THEN /\ l_pc' = [l_pc EXCEPT ![t] = "take"]
          /\ UNCHANGED <<l_lock, l_ret>>
     ELSE IF ~l_blocking[t]
     THEN /\ l_pc' = [l_pc EXCEPT ![t] = "done"]
          /\ l_ret' = [l_ret EXCEPT ![t] = "False"]
          /\ l_lock' = IF l_lock = t THEN "none" ELSE l_lock
     ELSE /\ l_pc' = [l_pc EXCEPT ![t] = "sleep"]
          /\ UNCHANGED <<l_lock, l_ret>>
  /\ UNCHANGED <<l_tokens, l_elapsed, l_n, l_blocking, l_granted, l_clock,
               coreVars, wrapVars, ixVars, scanVars>>

\* self.tokens -= tokens; return True
LTake(t) ==
  /\ l_pc[t] = "take"
  /\ l_tokens' = l_tokens - l_n[t]
  /\ l_granted' = l_granted + l_n[t]
  /\ l_ret' = [l_ret EXCEPT ![t] = "True"]
  /\ l_lock' = IF l_lock = t THEN "none" ELSE l_lock
  /\ l_pc' = [l_pc EXCEPT ![t] = "done"]
  /\ UNCHANGED <<l_elapsed, l_n, l_blocking, l_clock,
               coreVars, wrapVars, ixVars, scanVars>>

\* time.sleep((tokens - self.tokens) / self.rate), inside the lock; the
\* thread may wake up late
LSleep(t) ==
  /\ l_pc[t] = "sleep"
  /\ \E late \in 0..MaxElapsed :
       /\ l_elapsed' = Later(l_elapsed, (l_n[t] - l_tokens) + late)
       /\ l_clock' = ClockLater(l_clock, (l_n[t] - l_tokens) + late)
  /\ l_pc' = [l_pc EXCEPT ![t] = "refill"]
  /\ UNCHANGED <<l_tokens, l_lock, l_n, l_blocking, l_ret, l_granted,
               coreVars, wrapVars, ixVars, scanVars>>

\* time passes
LTick ==
  /\ l_elapsed < BucketCapacity \/ l_clock < MaxClock
  /\ l_elapsed' = Later(l_elapsed, 1)
  /\ l_clock' = ClockLater(l_clock, 1)
  /\ UNCHANGED <<l_tokens, l_lock, l_pc, l_n, l_blocking, l_ret, l_granted,
               coreVars, wrapVars, ixVars, scanVars>>

LThread(t) ==
  \/ LCall(t)
  \/ LLock(t)
  \/ LRefill(t)
  \/ LCheck(t)
  \/ LTake(t)
  \/ LSleep(t)

LimiterNext ==
  \/ \E t \in Threads : LThread(t)
  \/ LTick
LimiterSpec == LimiterInit /\ [][LimiterNext]_vars

\* what one step of the limiter may do to the counter
TakesExactly ==
  \A t \in Threads :
    (l_ret[t] = "none" /\ l_ret'[t] = "True") =>
      /\ l_tokens >= l_n[t]
      /\ l_tokens' = l_tokens - l_n[t]
      /\ l_granted' = l_granted + l_n[t]

\* C14: under any interleaving of concurrent acquire calls the tokens are
\* never over-drawn: the counter stays within 0..capacity, a call that
\* returns True reduces it by exactly n when it holds at least n, and the
\* total granted is at most the capacity plus rate times the elapsed time.
C14_NeverOverdrawn ==
  /\ [](/\ l_tokens \in 0..BucketCapacity
        /\ l_clock < MaxClock => l_granted <= BucketCapacity + l_clock
        /\ \A t \in Threads : l_pc[t] = "take" => l_tokens >= l_n[t])
  /\ [][TakesExactly]_vars

\* two callers were granted more than the bucket holds at once, the second
\* after a refill
C14_Witness ==
  /\ \A t \in Threads : l_ret[t] = "True"
  /\ l_granted > BucketCapacity
  /\ l_clock < MaxClock

\* Every thread that can take a step of acquire eventually takes it, and
\* the clock keeps advancing.
LimiterFairSpec ==
  /\ LimiterSpec
  /\ \A t \in Threads : WF_vars(LThread(t))
  /\ WF_vars(LTick)

\* C15: every blocking acquire eventually returns True, also when n exceeds
\* the capacity and when other callers are acquiring.
C15_BlockingAcquireReturns ==
  \A t \in Threads : (l_pc[t] = "lock" /\ l_blocking[t]) ~> (l_ret[t] = "True")

\* C27: a non-blocking acquire never waits: while it is pending at the lock
\* no other caller sleeps through a wait for tokens, so it completes without
\* being delayed under every interleaving.
C27_NonBlockingNeverWaits ==
  [][\A t \in Threads :
       (l_pc[t] = "lock" /\ ~l_blocking[t]) =>
         \A u \in Threads : ~(l_pc[u] = "sleep" /\ l_pc'[u] = "refill")]_vars

(***************************************************************************)
(* scanner/file_index.py on its own: callers upsert lists of records and   *)
(* read the index back.  i_last remembers, per file id, the record most    *)
(* recently passed to add_files.                                           *)
(***************************************************************************)
\* the records a caller may upsert
UpsertRecords ==
  {ScanRecord(id, sz, m, tr) :
     id \in TrashIds, sz \in 1..MaxSize, m \in {"x"}, tr \in BOOLEAN}
UpsertLists == UNION {[1..n -> UpsertRecords] : n \in 0..2}

RECURSIVE Remember(_, _)
\* the dict file id -> latest record after a list of upserts
Remember(last, fs) ==
  IF fs = <<>> THEN last
  ELSE Remember(DictSet(last, Head(fs).file_id, Head(fs)), Tail(fs))

\* a new, empty index
IndexInit ==
  /\ StratIdle /\ DetIdle /\ TrashIdle /\ WrapIdle /\ LimIdle /\ IxIdle /\ ScanIdle

\* add_files(files)
IxUpsert ==
  /\ \E fs \in UpsertLists :
       /\ index' = add_files(index, fs)
       /\ i_list' = fs
       /\ i_once' = add_files(index, fs)
       /\ i_last' = Remember(i_last, fs)
  /\ i_pc' = "upserted"
  /\ i_read' = NoRead
  /\ UNCHANGED <<stratVars, d_pc, d_min_size, d_byte, d_result, storeVars,
                 callVars, batchVars, cmdVars, wrapVars, limVars,
                 scanVars>>

\* add_files(files) again with the list of the previous call
IxRepeat ==
  /\ i_pc = "upserted"
  /\ index' = add_files(index, i_list)
  /\ i_pc' = "repeated"
  /\ UNCHANGED <<i_list, i_once, i_last, i_read>>
  /\ UNCHANGED <<stratVars, d_pc, d_min_size, d_byte, d_result, storeVars,
                 callVars, batchVars, cmdVars, wrapVars, limVars,
                 scanVars>>

\* the read methods and what they return
IndexReads(table) ==
  {[op |-> "get_file", ret |-> get_file(table, id)] : id \in TrashIds}
  \cup {[op |-> "count_files", ret |-> count_files(table)]}
  \cup {[op |-> "find_by_size", ret |-> find_by_size(table, ms)] : ms \in MinSizes}
  \cup {[op |-> "find_by_md5", ret |-> find_by_md5(table, ml)] :
          ml \in {<<>>, <<"x">>, <<NoneMd5, "x">>}}
  \cup {[op |-> "get_files_by_ids", ret |-> get_files_by_ids(table, ids)] :
          ids \in IdLists}

IxRead ==
  /\ \E rd \in IndexReads(index) : i_read' = rd
  /\ i_pc' = "read"
  /\ i_list' = <<>>
  /\ i_once' = <<>>
  /\ UNCHANGED <<i_last>>
  /\ UNCHANGED <<index, stratVars, d_pc, d_min_size, d_byte, d_result,
                 storeVars, callVars, batchVars, cmdVars, wrapVars, limVars,
                 scanVars>>

IndexNext ==
  \/ IxUpsert
  \/ IxRepeat
  \/ IxRead
IndexSpec == IndexInit /\ [][IndexNext]_vars

\* C16: add_files is idempotent and keyed by file id: the same list applied
\* twice leaves the index as applying it once does, and after any upserts
\* the index holds at most one record per id, the last one upserted for it.
C16_UpsertIdempotentByKey ==
  /\ i_pc = "repeated" => index = i_once
  /\ \A id \in TrashIds :
       /\ Cardinality({i \in 1..Len(index) : index[i].file_id = id}) <= 1
       /\ get_file(index, id) = (IF id \in DictKeys(i_last)
                                 THEN <<DictGet(i_last, id)>> ELSE <<>>)

\* a list naming one id twice, with different contents, was applied twice
\* over an older record of that id
C16_Witness ==
  /\ i_pc = "repeated"
  /\ Len(i_list) = 2 /\ i_list[1].file_id = i_list[2].file_id
  /\ i_list[1] # i_list[2]
  /\ \E id \in TrashIds : id # i_list[1].file_id /\ get_file(index, id) # <<>>

\* the file ids a read result names
IdsOfItems(d) == UNION {{d[i].val[j] : j \in 1..Len(d[i].val)} : i \in 1..Len(d)}
Exposed(rd) ==
  CASE rd.op \in {"get_file", "get_files_by_ids"} ->
         {rd.ret[i].file_id : i \in 1..Len(rd.ret)}
    [] rd.op \in {"find_by_size", "find_by_md5"} -> IdsOfItems(rd.ret)
    [] OTHER -> {}

\* C17: every read of the index (count_files, find_by_size, find_by_md5,
\* get_files_by_ids, get_file) leaves out the trashed records: none is
\* counted or returned.
C17_ReadsExcludeTrashed ==
  i_pc = "read" =>
    /\ \A r \in Rows(index) : r.file_id \in Exposed(i_read) => r.trashed = 0
    /\ i_read.op = "count_files" =>
         i_read.ret = Cardinality({i \in 1..Len(index) : index[i].trashed = 0})

\* C18: detect_duplicates never changes the index: the stored records and
\* all their fields are the same after the call as before it, whether the
\* call returns groups, returns nothing or fails.
C18_DetectionLeavesIndex == [][index' = index]_vars

\* a run over an index with a trashed record and a record without checksum
\* returned a group
C18_Witness ==
  /\ d_pc = "done" /\ d_result.status = "ok" /\ d_result.groups # <<>>
  /\ d_byte
  /\ \E r \in Rows(index) : r.trashed = 1

\* what the command has done when it stopped at the strategy check
StoppedAtStrategy ==
  /\ x_pc = "exit" /\ x_code = 1
  /\ d_pc = "idle" /\ d_result = NoResult
  /\ sent = {} /\ c_requests = 0 /\ x_results = <<>>

\* C19 as stated: a strategy name outside newest, oldest, shortest, longest,
\* deepest, path, merge-names makes get_strategy raise ValueError, and the
\* delete command exits before any detection and any remote request.
C19_UnlistedNameRejected ==
  (x_pc # "start" /\ x_opts.strategy \notin {KeyText(k) : k \in StrategyNames}) =>
    /\ get_strategy(x_opts.strategy) = "ValueError"
    /\ StoppedAtStrategy

\* C19, amended: a strategy name whose lower-cased form is outside the seven
\* names makes get_strategy raise ValueError, and the delete command exits
\* with code 1 before any detection and before any remote request.
C19_InvalidNameRejected ==
  (x_pc # "start"
   /\ lower(x_opts.strategy) \notin {KeyText(k) : k \in StrategyNames}) =>
    /\ get_strategy(x_opts.strategy) = "ValueError"
    /\ StoppedAtStrategy

\* a live, pre-approved run over an index with duplicates was given an
\* invalid name
C19_Witness ==
  /\ x_pc = "exit" /\ x_opts.strategy = <<"b", "o", "g", "u", "s">>
  /\ x_opts.execute /\ x_opts.yes
  /\ \E r, q \in Rows(index) : r # q /\ r.md5 = q.md5

\* the members of the selected group whose path matches / does not match
\* the pattern given to the strategy
KeptByPattern ==
  {s_group.files[i] : i \in {j \in 1..Len(s_group.files) :
                               fnmatch(s_group.files[j].path, s_keep)}}
NotKeptByPattern ==
  {s_group.files[i] : i \in {j \in 1..Len(s_group.files) :
                               ~fnmatch(s_group.files[j].path, s_keep)}}

\* C20: for every strategy but the path strategy, a keep_path that matches
\* at least one member's path makes the trash list exactly the members whose
\* path does not match, whatever the times and path lengths; a keep_path
\* that matches no member gives the result of no keep_path.
C20_KeepPathOverride ==
  (s_pc = "selected" /\ s_name # "path" /\ s_keep # NoneStr) =>
    IF KeptByPattern # {}
    THEN /\ {s_trash[i] : i \in 1..Len(s_trash)} = NotKeptByPattern
         /\ Len(s_trash) = Cardinality(NotKeptByPattern)
    ELSE s_trash = select_files_to_trash(s_name, s_group, NoneStr)

\* the override kept an older, shallower file and trashed the newest and the
\* deepest member of the group
C20_Witness ==
  /\ s_pc = "selected" /\ s_name = "deepest" /\ s_keep # NoneStr
  /\ KeptByPattern # {} /\ NotKeptByPattern # {}
  /\ newest_file(s_group) \in NotKeptByPattern
  /\ s_group.files[PyMax(path_depth(s_group))] \in NotKeptByPattern
  /\ \A f \in NotKeptByPattern : \E i \in 1..Len(s_trash) : s_trash[i] = f

\* the members of the selected group that the strategy did not return
Retained ==
  {s_group.files[i] : i \in {j \in 1..Len(s_group.files) :
                               \A k \in 1..Len(s_trash) : s_trash[k] # s_group.files[j]}}

\* f attains the extremum the strategy of the given name stands for
AttainsExtremum(name, g, f) ==
  \A i \in 1..Len(g.files) :
    CASE name \in {"newest", "merge-names"} ->
           g.files[i].modified_time <= f.modified_time
      [] name = "oldest" -> g.files[i].modified_time >= f.modified_time
      [] name = "shortest" -> Len(g.files[i].path) >= Len(f.path)
      [] name = "longest" -> Len(g.files[i].path) <= Len(f.path)
      [] name = "deepest" -> CountSlash(g.files[i].path) <= CountSlash(f.path)

\* C21: without keep_path each extremum strategy trashes exactly count - 1
\* members and retains exactly one, which attains the strategy's extremum
\* (newest, merge-names: latest modified time; oldest: earliest; shortest /
\* longest: path length; deepest: number of '/').
C21_ExtremumRetained ==
  (s_pc = "selected" /\ s_keep = NoneStr /\ s_name # "path") =>
    /\ Len(s_trash) = count(s_group) - 1
    /\ Cardinality(Retained) = 1
    /\ \A f \in Retained : AttainsExtremum(s_name, s_group, f)

\* three members, two of them tied for the latest time, under newest
C21_Witness ==
  /\ s_pc = "selected" /\ s_keep = NoneStr /\ s_name = "newest"
  /\ count(s_group) = 3
  /\ s_group.files[1].modified_time < s_group.files[2].modified_time
  /\ s_group.files[2].modified_time = s_group.files[3].modified_time
  /\ Retained = {s_group.files[2]}

(***************************************************************************)
(* Detection over indexes of up to four files, all live and with a         *)
(* checksum, so that a run can return two groups.                          *)
(***************************************************************************)
WideIds == {AllIds[1], AllIds[2], AllIds[3], AllIds[4]}
WideIndexContents(table, ids) ==
  \E S \in SUBSET ids :
    \E a \in [S -> (1..MaxSize) \X {"x", "y"} \X {FALSE}], p \in EndOrders(S) :
      table = ScannedTable(p, a)

DetectWideInit ==
  /\ StratIdle /\ TrashIdle /\ AuxIdle
  /\ WideIndexContents(index, WideIds)
  /\ d_pc = "start" /\ d_min_size = 0 /\ d_byte = FALSE /\ d_result = NoResult
DetectWideSpec == DetectWideInit /\ [][DetectNext]_vars

\* C22: the list detect_duplicates returns is ordered by non-increasing
\* wasted size: each group wastes at least as much as the one after it.
C22_SortedByWasted ==
  d_pc = "done" =>
    \A i \in 1..(Len(d_result.groups) - 1) :
      wasted_size(d_result.groups[i]) >= wasted_size(d_result.groups[i + 1])

\* two groups were returned and the one built second (checksum y) wastes
\* more and comes first
C22_Witness ==
  /\ d_pc = "done" /\ Len(d_result.groups) = 2
  /\ d_result.groups[1].md5 = "y" /\ d_result.groups[2].md5 = "x"
  /\ wasted_size(d_result.groups[1]) > wasted_size(d_result.groups[2])

\* C23: for every DuplicateGroup, wasted_size = size * (count - 1) and
\* total_size = size * count, count being the number of member files, so
\* the two differ by the size of the one member that is kept.
C23_WastedAndTotalSize ==
  \A i \in 1..Len(d_result.groups) :
    LET g == d_result.groups[i]
    IN /\ count(g) = Len(g.files)
       /\ total_size(g) = g.size * count(g)
       /\ wasted_size(g) = g.size * (count(g) - 1)
       /\ total_size(g) - wasted_size(g) = g.size

\* a group of three members of size 2 was built: 4 wasted of 6
C23_Witness ==
  /\ d_pc = "done" /\ Len(d_result.groups) = 1
  /\ count(d_result.groups[1]) = 3 /\ d_result.groups[1].size = 2
  /\ wasted_size(d_result.groups[1]) = 4 /\ total_size(d_result.groups[1]) = 6

(***************************************************************************)
(* The delete command over an index of four files in two checksum groups:  *)
(* a and b hold checksum x (size 1), ab and c hold checksum y; names and   *)
(* parent folders vary, so the two groups can ask for the same merged name *)
(* and can each lie in one folder or in two.                               *)
(***************************************************************************)
WideRecord(id, nm, sz, m, folder_names) ==
  FileRecord(id, nm, sz, m, 1, get_file_path(folder_names), FALSE)
WideNames == {<<"a">>, <<"a", "b">>}
\* folder a, and folder b inside folder a
WideFolders == { << <<"a">> >>, << <<"a">>, <<"b">> >> }
WideMd5(id) == IF id \in {AllIds[1], AllIds[2]} THEN "x" ELSE "y"
WideDeleteIndexContents(table, ids) ==
  \E nm \in [ids -> WideNames], fo \in [ids -> WideFolders],
     sz \in 1..MaxSize, p \in EndOrders(ids) :
    table = add_files(<<>>, [i \in 1..Len(p) |->
              WideRecord(p[i], nm[p[i]], IF WideMd5(p[i]) = "x" THEN 1 ELSE sz,
                         WideMd5(p[i]), fo[p[i]])])
WideOptions ==
  {Options(st, NoneStr, sf, 0, TRUE, ex, TRUE) :
     st \in {KeyText("merge-names"), KeyText("newest")},
     sf \in BOOLEAN, ex \in BOOLEAN}

DeleteWideInit ==
  /\ StratIdle /\ CallIdle /\ BatchIdle /\ AuxIdle
  /\ WideDeleteIndexContents(index, WideIds)
  /\ d_pc = "idle" /\ d_min_size = 0 /\ d_byte = FALSE /\ d_result = NoResult
  /\ remote = [id \in WideIds |-> "live"] /\ sent = {}
  /\ tokens = BucketCapacity
  /\ x_pc = "start" /\ x_opts = DefaultOptions /\ x_dry = TRUE
  /\ x_confirm = "none" /\ x_rename = <<>> /\ x_ids = <<>> /\ x_i = 0
  /\ x_results = <<>> /\ x_code = 0

DeleteWideStart == DeleteStartWith(WideOptions)

DeleteWideNext ==
  \/ DeleteWideStart
  \/ DeleteManagers
  \/ DeleteRename
  \/ DeleteTrashCall
  \/ DeleteAttempt
  \/ DeleteTrashRecord
DeleteWideSpec == DeleteWideInit /\ [][DeleteWideNext]_vars

\* C24: after the name-conflict resolution of the delete command no two
\* different groups of one run are assigned the same new name.
C24_NewNamesDiffer ==
  \A i, j \in 1..Len(x_rename) :
    i # j => x_rename[i].new_name # x_rename[j].new_name

\* the ids the size pass returns for the run's min_size
CandidateIds ==
  UNION {{it.val[j] : j \in 1..Len(it.val)} :
           it \in {find_by_size(index, d_min_size)[i] :
                     i \in 1..Len(find_by_size(index, d_min_size))}}

\* C25: the checksum pass groups only ids that survived the size pass:
\* every member of every emitted group is a candidate id of the size pass
\* for the same min_size, so it has size >= min_size and shares its size
\* with another candidate.
C25_GroupsWithinCandidates ==
  Returned =>
    \A g \in Groups : \A f \in Members(g) :
      /\ f.file_id \in CandidateIds
      /\ f \in Candidates

(***************************************************************************)
(* cli/scan_cmd.py: scan runs over one index and one checkpoint file.  A   *)
(* run may be interrupted at any point (the process is killed, or the      *)
(* listing fails); what is committed stays.  k_ckpt is files_scanned in    *)
(* the checkpoint file, -1 when there is no file; k_written holds the rows *)
(* the index had when the run that is being resumed was interrupted.       *)
(***************************************************************************)
\* the records scan_files may yield: live files with size and checksum
ListedRecords ==
  {ScanRecord(id, sz, "x", FALSE) : id \in TrashIds, sz \in {1, MaxSize}}
Listings == UNION {[1..n -> ListedRecords] : n \in 0..MaxListing}

\* mutant: the index is cleared on resume as well
table_at_start_cleared(table, resume) == <<>>

\* if resume: checkpoint.load() ... else: file_index.clear()
table_at_start(table, resume) == IF resume THEN table ELSE <<>>

ScanInit ==
  /\ StratIdle /\ DetIdle /\ TrashIdle /\ WrapIdle /\ LimIdle /\ IxIdle
  /\ k_pc = "idle" /\ k_resume = FALSE /\ k_listing = <<>> /\ k_pos = 0
  /\ k_batch = <<>> /\ k_ckpt = -1 /\ k_written = <<>> /\ k_crashes = 0

\* the command starts, in a new process after an earlier run has ended or
\* was interrupted: with resume the checkpoint is loaded, without it
\* file_index.clear() empties the table; the listing is what the store
\* yields during this run
ScanStart ==
  /\ k_pc \in {"idle", "crashed", "complete"}
  /\ \E resume \in BOOLEAN, listing \in Listings :
       /\ k_resume' = resume
       /\ k_listing' = listing
       /\ index' = table_at_start(index, resume)
       /\ k_written' = IF resume /\ k_pc = "crashed" THEN k_written ELSE <<>>
       /\ k_pc' = IF resume THEN "scanning" ELSE "forget"
  /\ k_pos' = 0 /\ k_batch' = <<>>
  /\ UNCHANGED <<k_ckpt, k_crashes, stratVars, d_pc, d_min_size, d_byte,
                 d_result, storeVars, callVars, batchVars, cmdVars, wrapVars,
                 limVars, ixVars>>

\* without resume, after the table is emptied: checkpoint.clear() removes
\* the checkpoint file
ScanForget ==
  /\ k_pc = "forget"
  /\ k_ckpt' = -1
  /\ k_pc' = "scanning"
  /\ UNCHANGED <<index, k_resume, k_listing, k_pos, k_batch, k_written,
                 k_crashes, stratVars, d_pc, d_min_size, d_byte, d_result,
                 storeVars, callVars, batchVars, cmdVars, wrapVars, limVars,
                 ixVars>>

\* one iteration of the loop over scan_files: the record joins the batch,
\* and a full batch is written to the index
ScanRecordStep ==
  /\ k_pc = "scanning" /\ k_pos < Len(k_listing)
  /\ k_pos' = k_pos + 1
  /\ IF Len(k_batch) + 1 >= batch_size
     THEN /\ index' = add_files(index, Append(k_batch, k_listing[k_pos + 1]))
          /\ k_batch' = <<>>
          /\ k_pc' = "save"
     ELSE /\ k_batch' = Append(k_batch, k_listing[k_pos + 1])
          /\ UNCHANGED <<index, k_pc>>
  /\ UNCHANGED <<k_resume, k_listing, k_ckpt, k_written, k_crashes, stratVars,
                 d_pc, d_min_size, d_byte, d_result, storeVars, callVars,
                 batchVars, cmdVars, wrapVars, limVars, ixVars>>

\* checkpoint.save(None, files_scanned)
ScanSave ==
  /\ k_pc = "save"
  /\ k_ckpt' = k_pos
  /\ k_pc' = "scanning"
  /\ UNCHANGED <<index, k_resume, k_listing, k_pos, k_batch, k_written,
                 k_crashes, stratVars, d_pc, d_min_size, d_byte, d_result,
                 storeVars, callVars, batchVars, cmdVars, wrapVars, limVars,
                 ixVars>>

\* if batch: file_index.add_files(batch)
ScanFlush ==
  /\ k_pc = "scanning" /\ k_pos = Len(k_listing)
  /\ index' = IF k_batch # <<>> THEN add_files(index, k_batch) ELSE index
  /\ k_batch' = <<>>
  /\ k_pc' = "clearing"
  /\ UNCHANGED <<k_resume, k_listing, k_pos, k_ckpt, k_written, k_crashes,
                 stratVars, d_pc, d_min_size, d_byte, d_result, storeVars,
                 callVars, batchVars, cmdVars, wrapVars, limVars, ixVars>>

\* checkpoint.clear()
ScanClear ==
  /\ k_pc = "clearing"
  /\ k_ckpt' = -1
  /\ k_pc' = "complete"
  /\ UNCHANGED <<index, k_resume, k_listing, k_pos, k_batch, k_written,
                 k_crashes, stratVars, d_pc, d_min_size, d_byte, d_result,
                 storeVars, callVars, batchVars, cmdVars, wrapVars, limVars,
                 ixVars>>

\* the run is interrupted: the batch in memory is gone, the committed rows
\* and the checkpoint file stay
ScanCrash ==
  /\ k_pc \in {"forget", "scanning", "save", "clearing"}
  /\ k_crashes < MaxCrashes
  /\ k_crashes' = k_crashes + 1
  /\ k_written' = index
  /\ k_batch' = <<>>
  /\ k_pc' = "crashed"
  /\ UNCHANGED <<index, k_resume, k_listing, k_pos, k_ckpt, stratVars, d_pc,
                 d_min_size, d_byte, d_result, storeVars, callVars, batchVars,
                 cmdVars, wrapVars, limVars, ixVars>>

ScanNext ==
  \/ ScanStart
  \/ ScanForget
  \/ ScanRecordStep
  \/ ScanSave
  \/ ScanFlush
  \/ ScanClear
  \/ ScanCrash
ScanSpec == ScanInit /\ [][ScanNext]_vars

\* the ids of a listing, and the record a listing yields last for an id
ListedIds(listing) == {listing[i].file_id : i \in 1..Len(listing)}
LastListed(listing, id) ==
  listing[CHOOSE i \in 1..Len(listing) :
            /\ listing[i].file_id = id
            /\ \A j \in (i + 1)..Len(listing) : listing[j].file_id # id]

\* C26: a scan interrupted after any number of committed chunks and re-run
\* to completion with resume leaves a record for every file the listing
\* yields, one per id with the values of the latest listing, and no
\* checkpoint; no record written before the interruption is lost or
\* duplicated.
C26_ScanResumable ==
  (k_pc = "complete" /\ k_resume /\ k_crashes >= 1) =>
    /\ \A id \in ListedIds(k_listing) :
         get_file(index, id) = <<LastListed(k_listing, id)>>
    /\ \A id \in TrashIds :
         Cardinality({i \in 1..Len(index) : index[i].file_id = id}) <= 1
    /\ k_ckpt = -1
    /\ \A w \in Rows(k_written) :
         /\ \E r \in Rows(index) : r.file_id = w.file_id
         /\ w.file_id \notin ListedIds(k_listing) => w \in Rows(index)

\* a run wrote one chunk and was interrupted; the resumed run listed one of
\* its files again, changed, and not the other
C26_Witness ==
  /\ k_pc = "complete" /\ k_resume /\ k_crashes = 1
  /\ Len(k_listing) >= 1
  /\ \E w \in Rows(k_written) : w.file_id \notin ListedIds(k_listing)
  /\ \E w \in Rows(k_written) :
       w.file_id \in ListedIds(k_listing) /\ w \notin Rows(index)

(***************************************************************************)
(* cli/delete_cmd.py invoked repeatedly: live, approved runs against one   *)
(* index and one remote store, without a scan in between.                  *)
(***************************************************************************)
RerunOptions ==
  {Options(st, kp, sf, 0, FALSE, TRUE, TRUE) :
     st \in {KeyText("shortest"), KeyText("longest")},
     kp \in {NoneStr, <<"/", "a", "*">>},
     sf \in BOOLEAN}

RerunStart == DeleteStartWith(RerunOptions)

\* the command has ended and is invoked again in a new process; the index
\* file and the remote store are what the earlier runs left
DeleteAgain ==
  /\ x_pc \in {"done", "exit"}
  /\ x_pc' = "start" /\ x_opts' = DefaultOptions /\ x_dry' = TRUE
  /\ x_confirm' = "none" /\ x_rename' = <<>> /\ x_ids' = <<>> /\ x_i' = 0
  /\ x_results' = <<>> /\ x_code' = 0
  /\ c_pc' = "idle" /\ c_id' = NoneStr /\ c_dry' = FALSE /\ c_attempt' = 0
  /\ c_delay' = base_delay /\ c_requests' = 0 /\ c_acquired' = 0
  /\ c_resp' = -1 /\ c_ret' = "none"
  /\ UNCHANGED <<stratVars, detVars, storeVars, batchVars, auxVars>>

RerunNext ==
  \/ RerunStart
  \/ DeleteManagers
  \/ DeleteTrashCall
  \/ DeleteAttempt
  \/ DeleteTrashRecord
  \/ DeleteAgain
RerunSpec == DeleteInit /\ [][RerunNext]_vars

\* C28: across any sequence of live delete runs against the same index every
\* duplicate group keeps at least one member that is not trashed in the
\* remote store.
C28_GroupKeepsLiveMember ==
  (d_pc = "done" /\ d_result.status = "ok") =>
    \A g \in Groups : \E f \in Members(g) : remote[f.file_id] = "live"

\* C29: for merge-names the file get_rename_info selects as the survivor to
\* rename is never among the files select_files_to_trash returns for the
\* same group, whatever keep_path is.
C29_SurvivorNotTrashed ==
  (s_pc = "selected" /\ s_name = "merge-names") =>
    \A k \in 1..Len(get_rename_info(s_group, FALSE)) :
      \A i \in 1..Len(s_trash) :
        s_trash[i].file_id # get_rename_info(s_group, FALSE)[k].file.file_id

\* the ids a run has collected for trashing or renaming
CollectedIds ==
  {x_ids[i] : i \in 1..Len(x_ids)} \cup
  {x_rename[i].file_id : i \in 1..Len(x_rename)}

\* the folder a scanned file lies in: the scanner stores the names of the
\* parent folders as the path, without the name of the file
FolderOf(f) == f.path

\* C30: in same-folder-only mode no file of a duplicate group whose members
\* lie in more than one folder is trashed or renamed: such a group's files
\* are not collected and stay live in the remote store.
C30_CrossFolderUntouched ==
  (d_pc = "done" /\ d_result.status = "ok" /\ x_opts.same_folder_only) =>
    \A g \in Groups :
      (\E f, h \in Members(g) : FolderOf(f) # FolderOf(h)) =>
        \A f \in Members(g) :
          /\ f.file_id \notin CollectedIds
          /\ \A r \in sent : r.fileId # f.file_id
          /\ remote[f.file_id] = "live"

====
